---- MODULE Spec2Model ----
(***************************************************************************)
(* Model of the containish runtime (container/container.go).               *)
(*                                                                         *)
(* Three processes cooperate per launch: stage 0 (RunContainer), stage 1   *)
(* (handleParentStage) and stage 2 (handleChildStage).  They talk over the *)
(* init pipe (stage 0 <-> stage 1) and the stage pipe (stage 1 <-> stage   *)
(* 2).  Stage 0 persists the Container record in state.json; StopContainer *)
(* reads it back, signals the recorded PID and rewrites it.                *)
(***************************************************************************)
EXTENDS Integers, Sequences, FiniteSets, TLC

(***************************************************************************)
(* Bounds of the model.                                                    *)
(***************************************************************************)
\* Largest host PID the kernel hands out; the pool is the three highest.
MaxPid == 11
\* Number of RunContainer calls in one behaviour.
MaxRuns == 2
\* Number of StopContainer calls in one behaviour.
MaxStops == 2
\* Longest text between "pid:" and the line end that the parser is fed.
MaxBody == 3

Pids == (MaxPid - 2)..MaxPid

(***************************************************************************)
(* Program constants.                                                      *)
(***************************************************************************)
Created == 0
Running == 1
Stopped == 2

\* The container id used by the caller (an opaque non-empty string).
ContainerId == "c1"

\* The empty id, which the caller may pass as well.
EmptyId == ""

\* The root of the runtime's state (baseStateDir).
BaseStateDir == "/run/miniruntime"

\* filepath.Join: empty elements are dropped.
Join(elems) == SelectSeq(elems, LAMBDA e : e # "")

\* StateDir: the directory of a container's state, as path elements.
StateDir(id) == Join(<<BaseStateDir, id>>)

\* Byte values that occur on the init pipe.
NUL == 0
LF == 10
SP == 32
PLUS == 43
MINUS == 45
ZERO == 48
COLON == 58
CH_d == 100
CH_i == 105
CH_p == 112
CH_x == 120

PidPrefix == <<CH_p, CH_i, CH_d, COLON>>

\* The last k elements of the state directory's path do not exist.
Missing(k) == [missing |-> k]

IsMissing(file) == "missing" \in DOMAIN file

\* The state directory of the container does not exist.
NoRec == Missing(1)

\* The state directory exists but holds no state.json.
NoFile == [nofile |-> TRUE]

\* state.json exists but holds no complete document: os.Create has
\* truncated it and the encoder has written nothing or only a part.
Truncated == [truncated |-> TRUE]

(***************************************************************************)
(* Pure helpers: formatting and parsing of the handshake line.             *)
(***************************************************************************)
RECURSIVE Digits(_)
\* fmt.Sprintf("%d", n) for n >= 0: the ASCII decimal digits of n.
Digits(n) == IF n < 10 THEN <<ZERO + n>> ELSE Digits(n \div 10) \o <<ZERO + (n % 10)>>

\* fmt.Sprintf("pid:%d\n", pid)
PidLine(pid) == PidPrefix \o Digits(pid) \o <<LF>>

IsDigit(b) == b >= ZERO /\ b <= ZERO + 9

\* unicode.IsSpace restricted to single bytes: \t \n \v \f \r and space.
IsSpace(b) == b \in {9, 10, 11, 12, 13, SP}

RECURSIVE TrimLeft(_)
TrimLeft(s) == IF s # <<>> /\ IsSpace(Head(s)) THEN TrimLeft(Tail(s)) ELSE s

RECURSIVE TrimRight(_)
TrimRight(s) ==
  IF s # <<>> /\ IsSpace(s[Len(s)]) THEN TrimRight(SubSeq(s, 1, Len(s) - 1)) ELSE s

\* strings.TrimSpace
TrimSpace(s) == TrimRight(TrimLeft(s))

\* strings.HasPrefix
HasPrefix(s, p) == Len(s) >= Len(p) /\ SubSeq(s, 1, Len(p)) = p

\* strings.TrimPrefix
TrimPrefix(s, p) == IF HasPrefix(s, p) THEN SubSeq(s, Len(p) + 1, Len(s)) ELSE s

RECURSIVE DigitsValue(_)
DigitsValue(s) ==
  IF s = <<>> THEN 0 ELSE DigitsValue(SubSeq(s, 1, Len(s) - 1)) * 10 + (s[Len(s)] - ZERO)

\* strconv.Atoi: an optional sign followed by one or more decimal digits.
Atoi(s) ==
  LET signed == s # <<>> /\ Head(s) \in {PLUS, MINUS}
      body == IF signed THEN Tail(s) ELSE s
  IN IF body = <<>> \/ \E i \in 1..Len(body) : ~IsDigit(body[i])
       THEN [ok |-> FALSE, val |-> 0]
       ELSE [ok |-> TRUE,
             val |-> IF signed /\ Head(s) = MINUS THEN 0 - DigitsValue(body)
                     ELSE DigitsValue(body)]

\* Index of the first LF of s, 0 when there is none (bufio ReadString('\n')).
FirstLF(s) ==
  IF \E i \in 1..Len(s) : s[i] = LF
    THEN CHOOSE i \in 1..Len(s) : s[i] = LF /\ \A j \in 1..(i - 1) : s[j] # LF
    ELSE 0

\* Variant: the text after the prefix is parsed without trimming it.
PidStr_NoTrim(line) == TrimPrefix(line, PidPrefix)

\* The text after the prefix as readInitInfo hands it to Atoi.
PidStr(line) == TrimSpace(TrimPrefix(line, PidPrefix))

\* Variant: the first byte is not checked.
HandshakeByteOk_Any(b) == b = b

\* The first byte the handshake accepts.
HandshakeByteOk(b) == b = NUL

\* Lines 547-560 of readInitInfo: the line after the first byte.  The
\* CHOOSE over a singleton names a value once, so that the line and the
\* trimmed text are computed a single time.
ParseLine(line) ==
  IF ~HasPrefix(line, PidPrefix) THEN [kind |-> "err", pid |-> 0]
  ELSE LET r == CHOOSE v \in {Atoi(t) : t \in {PidStr(line)}} : TRUE
       IN IF r.ok THEN [kind |-> "ok", pid |-> r.val] ELSE [kind |-> "err", pid |-> 0]

\* readInitInfo on the bytes received so far; eof says the writer is gone.
\* kind "block": the read is still waiting for more bytes.
readInitInfo(stream, eof) ==
  LET Err == [kind |-> "err", pid |-> 0]
      Block == [kind |-> "block", pid |-> 0]
  IN IF stream = <<>> THEN (IF eof THEN Err ELSE Block)
     ELSE IF ~HandshakeByteOk(Head(stream)) THEN Err
     ELSE IF FirstLF(Tail(stream)) = 0 THEN (IF eof THEN Err ELSE Block)
     ELSE CHOOSE res \in {ParseLine(l) :
                            l \in {SubSeq(Tail(stream), 1, FirstLF(Tail(stream)))}} : TRUE

(***************************************************************************)
(* State.                                                                  *)
(***************************************************************************)
VARIABLES
  disk,        \* contents of <baseStateDir>/<id>/state.json, or NoRec
  clock,       \* time.Now(), advanced by every RunContainer call
  pc0,         \* position of stage 0 inside RunContainer ("idle": not inside)
  container,   \* stage 0's in-memory *Container
  detach,      \* the detach argument of the current RunContainer call
  containerId, \* the containerId argument of the calls; disk is the file
               \* StateDir(containerId)/state.json
  runResult,   \* what the last RunContainer call returned ("none": not yet)
  pc1,         \* position of stage 1 inside handleParentStage
  s1pid,       \* cmd.Process.Pid in stage 0: host PID of stage 1
  s1opts,      \* the stageOptions stage 1 decoded
  exit1,       \* exit code of stage 1
  pc2,         \* position of stage 2 inside handleChildStage
  s2pid,       \* childCmd.Process.Pid in stage 1: host PID of stage 2
  exit2,       \* exit code of stage 2 (-1: killed by a signal)
  proc,        \* host process table: PID -> "free" | "alive" | "zombie", or
               \* "other" for a live process that is not the runtime's
  optsPipe,    \* init pipe, stage 0 -> stage 1 direction
  initPipe,    \* init pipe, stage 1 -> stage 0 direction (bytes)
  stagePipe,   \* stage pipe, stage 2 -> stage 1 direction (bytes)
  stopResult,  \* what the last StopContainer call returned ("none": no call yet)
  lastSignal,  \* the last SIGKILL sent: its target and the call that sent it
  trace,       \* protocol events of the current run, oldest first
  runWrites,   \* records the current RunContainer call has persisted
  runs,        \* number of RunContainer calls so far
  stops,       \* number of StopContainer calls so far
  savePc,      \* position inside a SaveState call that is followed step by step
  loaded,      \* what the last separate LoadState call found in state.json
  argv,        \* os.Args of a program start that is followed on its own
  mainPc,      \* where that program is: init(), main(), a stage handler, ...
  calls,       \* the handlers and command layers that program has entered
  exitCode,    \* the code that program exited with
  stdinSrc,    \* bytes on stage 1's stdin that nobody has read yet; the
               \* stdin is closed behind them
  stdinPipe    \* bytes the detached stage 1 has copied to stage 2's stdin

vars == <<disk, clock, pc0, container, detach, containerId, runResult, pc1, s1pid, s1opts,
          exit1, pc2, s2pid, exit2, proc, optsPipe, initPipe, stagePipe,
          stopResult, lastSignal, trace, runWrites, runs, stops, savePc, loaded,
          argv, mainPc, calls, exitCode, stdinSrc, stdinPipe>>

stage0Vars == <<pc0, container, detach, containerId, runResult, clock, runs>>
stage1Vars == <<pc1, s1pid, s1opts, exit1>>
stage2Vars == <<pc2, s2pid, exit2>>
\* State of the callers other than RunContainer.
cliVars == <<argv, mainPc, calls, exitCode>>
ioVars == <<stdinSrc, stdinPipe>>
stopVars == <<stopResult, lastSignal, stops, savePc, loaded, cliVars, ioVars>>

\* Nothing is piped into the runtime.
StdinIdle == stdinSrc = <<>> /\ stdinPipe = <<>>

\* No program start is followed on its own.
CliIdle == argv = <<>> /\ mainPc = "none" /\ calls = <<>> /\ exitCode = 0

\* Variant: the initial record is already marked Running.
NewContainer_Running(id, now) ==
  [Id |-> id, InitProcessPiD |-> 0, CreatedAt |-> now, Status |-> Running, Bundle |-> ""]

\* The Container value RunContainer builds before the handshake.
NewContainer(id, now) ==
  [Id |-> id, InitProcessPiD |-> 0, CreatedAt |-> now, Status |-> Created, Bundle |-> ""]

NoContainer == NewContainer("", 0)

NoOpts == [Detach |-> FALSE, Rootfs |-> ""]

NoSignal == [pid |-> 0, stop |-> 0]

Last(s) == s[Len(s)]

\* No separate LoadState call has been made.
NoLoad == [noload |-> TRUE]

\* spec.Root.Path with its default.
DefaultRootfs == "/alpine"

\* Variant: the readiness byte is written before /proc is mounted.
ChildSteps_ReadyFirst ==
  <<"mountPrivate", "bindRootfs", "openOldRoot", "openNewRoot", "fchdirNewRoot",
    "pivotRoot", "fchdirOldRoot", "chdirRoot", "mountSlave", "umountOldRoot",
    "writeReady", "mountProc", "exec">>

\* The steps of handleChildStage, in program order.
ChildSteps ==
  <<"mountPrivate", "bindRootfs", "openOldRoot", "openNewRoot", "fchdirNewRoot",
    "pivotRoot", "fchdirOldRoot", "chdirRoot", "mountSlave", "umountOldRoot",
    "mountProc", "writeReady", "exec">>

StepIndex(name) == CHOOSE i \in 1..Len(ChildSteps) : ChildSteps[i] = name

\* The mount/pivot steps: everything before the readiness byte.
MountSteps == {ChildSteps[i] : i \in 1..(StepIndex("writeReady") - 1)}

FreePids == {p \in Pids : proc[p] = "free"}

Init ==
  /\ disk = NoRec
  /\ clock = 0
  /\ pc0 = "idle"
  /\ container = NoContainer
  /\ detach = FALSE
  /\ CliIdle
  /\ StdinIdle
  /\ containerId = ContainerId
  /\ runResult = "none"
  /\ pc1 = "none"
  /\ s1pid = 0
  /\ s1opts = NoOpts
  /\ exit1 = 0
  /\ pc2 = "none"
  /\ s2pid = 0
  /\ exit2 = 0
  /\ proc = [p \in Pids |-> "free"]
  /\ optsPipe = <<>>
  /\ initPipe = <<>>
  /\ stagePipe = <<>>
  /\ stopResult = "none"
  /\ lastSignal = NoSignal
  /\ trace = <<>>
  /\ runWrites = <<>>
  /\ runs = 0
  /\ stops = 0
  /\ savePc = "idle"
  /\ loaded = NoLoad

(***************************************************************************)
(* Process table helpers.                                                  *)
(***************************************************************************)
\* os.Exit(code) in stage 1: the process becomes a zombie, its fds close.
Exit1(code) ==
  /\ pc1' = "exited"
  /\ exit1' = code
  /\ proc' = [proc EXCEPT ![s1pid] = "zombie"]

\* Stage 2 (or the shell it became) terminates with the given code.
Exit2(code) ==
  /\ pc2' = "exited"
  /\ exit2' = code
  /\ proc' = [proc EXCEPT ![s2pid] = "zombie"]

\* The record as SaveState leaves it on disk and LoadState reads it back.
SavedRecord(c) == c

\* How a SaveState call ends: nil, or an error from MkdirAll (lines
\* 55-57), os.Create (lines 59-62), Encode (lines 67-69) or Sync (lines
\* 71-73).
AllSaveOutcomes == {"ok", "mkdirFailed", "createFailed", "encodeFailed", "syncFailed"}

\* The same where the state directory is known to exist, as it does once
\* CreateStateDir has succeeded.
SaveOutcomes == AllSaveOutcomes \ {"mkdirFailed"}

\* SaveState returned nil.
SaveOk(o) == o = "ok"

\* The whole document reached the file (a failing Sync comes after it).
Written(o) == o \in {"ok", "syncFailed"}

\* The file after SaveState(stateDir, c) ended with outcome o.
SaveState(file, c, o) ==
  IF o = "mkdirFailed" THEN file
  ELSE IF o = "createFailed" THEN (IF IsMissing(file) THEN NoFile ELSE file)
  ELSE IF o = "encodeFailed" THEN Truncated
  ELSE SavedRecord(c)

\* LoadState succeeds: the file exists and decodes.
Loadable(file) == file \notin {NoRec, NoFile, Truncated}

\* A zombie whose parent is gone is reaped by PID 1.  Stage 1's parent is
\* stage 0 (gone once RunContainer has returned and the CLI exited); stage
\* 2's parent is stage 1; processes of earlier runs have no parent left.
Orphaned(p) ==
  /\ (p = s1pid /\ pc1 # "none") => pc0 = "idle"
  /\ (p = s2pid /\ pc2 # "none") => pc1 = "exited"

\* The host's init process, which adopts orphans.
InitPid == 1

\* The parent PID the host reports for stage 2: stage 1 (which started it)
\* while stage 1 has not exited, PID 1 once it has (lines 405-410: Release
\* only drops the handle; re-parenting happens when stage 1 exits).
Stage2Parent == IF pc1 = "exited" THEN InitPid ELSE s1pid

(***************************************************************************)
(* Stage 0: RunContainer.                                                  *)
(***************************************************************************)
\* Variant: the source directories are not looked for.
cpAlpineFS_NoStat(primary, fallback, copyOk) ==
  IF ~copyOk THEN "RootfsCopy" ELSE "ok"

\* Lines 252-281, cpAlpineFS: the source is /vagrant/alpine (primary) or
\* else <cwd>/alpine (fallback); with neither the call fails, and so it
\* does when creating the destination or the copy fails.
cpAlpineFS(primary, fallback, copyOk) ==
  IF ~primary /\ ~fallback THEN "RootfsMissing"
  ELSE IF ~copyOk THEN "RootfsCopy"
  ELSE "ok"

\* Lines 119-137: the first step of RunContainer that fails, in program
\* order LoadSpec, cpAlpineFS, CreateStateDir ("ok": none fails).
PrepareOutcome(specOk, rootfs, dirOk) ==
  IF ~specOk THEN "SpecLoad"
  ELSE IF rootfs # "ok" THEN rootfs
  ELSE IF ~dirOk THEN "StateWrite"
  ELSE "ok"

\* Lines 118-149: load the spec, stage the rootfs, create the state
\* directory and write the initial record.  outcome is the first step that
\* fails ("ok": none does).
RunContainer_Prepare(id, d, outcome, so) ==
  /\ pc0 = "idle"
  /\ runs < MaxRuns
  /\ runs' = runs + 1
  /\ clock' = clock + 1
  /\ detach' = d
  /\ containerId' = id
  /\ pc1' = "none" /\ s1pid' = 0 /\ s1opts' = NoOpts /\ exit1' = 0
  /\ pc2' = "none" /\ s2pid' = 0 /\ exit2' = 0
  /\ optsPipe' = <<>> /\ initPipe' = <<>> /\ stagePipe' = <<>>
  /\ trace' = <<>>
  /\ IF outcome = "ok"
       THEN /\ container' = NewContainer(id, clock')
            /\ disk' = SaveState(disk, container', so)
            /\ runWrites' = IF Written(so) THEN <<container'>> ELSE <<>>
            /\ pc0' = IF SaveOk(so) THEN "start" ELSE "idle"
            /\ runResult' = IF SaveOk(so) THEN "none" ELSE "StateWrite"
       ELSE /\ so = "ok"
            /\ container' = NoContainer
            /\ runWrites' = <<>>
            /\ pc0' = "idle"
            /\ runResult' = outcome
            /\ UNCHANGED disk
  /\ UNCHANGED <<proc, stopVars>>

\* Lines 151-175: socket pair, cmd.Start of "init PARENT_STAGE", close the
\* child end.  entry is where the started program begins.
RunContainer_Start(entry) ==
  /\ pc0 = "start"
  /\ \/ \E p \in FreePids :
          /\ proc' = [proc EXCEPT ![p] = "alive"]
          /\ s1pid' = p
          /\ pc1' = entry
          /\ pc0' = "sendOpts"
          /\ trace' = Append(trace, "s1started")
          /\ UNCHANGED runResult
     \/ /\ pc0' = "idle"
        /\ runResult' = "Spawn"
        /\ UNCHANGED <<proc, s1pid, pc1, trace>>
  /\ UNCHANGED <<disk, clock, container, detach, containerId, runs, s1opts, exit1, stage2Vars,
                 optsPipe, initPipe, stagePipe, stopVars, runWrites>>

\* Lines 177-183: send the stage options; on a write error (the peer has
\* closed its end) kill and reap stage 1 and return.
RunContainer_SendOpts ==
  /\ pc0 = "sendOpts"
  /\ IF pc1 = "exited"
       THEN /\ proc' = [proc EXCEPT ![s1pid] = "free"]
            /\ pc0' = "idle"
            /\ runResult' = "SendOpts"
            /\ UNCHANGED <<optsPipe, trace>>
       ELSE /\ optsPipe' = Append(optsPipe, [Detach |-> detach, Rootfs |-> DefaultRootfs])
            /\ pc0' = "handshake"
            /\ trace' = Append(trace, "optsSent")
            /\ UNCHANGED <<proc, runResult>>
  /\ UNCHANGED <<disk, clock, container, detach, containerId, runs, stage1Vars, stage2Vars,
                 initPipe, stagePipe, stopVars, runWrites>>

\* A read on the init pipe's parent end finds the end of the stream once
\* the buffered bytes are consumed: stage 0 has closed its copy of the
\* child end (line 175, the pair being close-on-exec), so stage 1 held the
\* only one.
InitPipeEOF == pc1 = "exited"

\* Lines 185-199: readInitInfo, then mark the record Running and persist.
\* so: how SaveState ends.
RunContainer_Handshake(so) ==
  /\ pc0 = "handshake"
  /\ LET r == readInitInfo(initPipe, InitPipeEOF)
     IN /\ r.kind # "block"
        /\ IF r.kind = "err"
             THEN /\ so = "ok"
                  /\ pc0' = "reapFailed"
                  /\ trace' = Append(trace, "handshakeErr")
                  /\ UNCHANGED <<container, disk, runWrites, runResult>>
             ELSE /\ container' = [container EXCEPT !.InitProcessPiD = r.pid,
                                                    !.Status = Running]
                  /\ disk' = SaveState(disk, container', so)
                  /\ runWrites' = IF Written(so) THEN Append(runWrites, container')
                                   ELSE runWrites
                  /\ trace' = IF Written(so) THEN trace \o <<"pidRead", "running">>
                               ELSE Append(trace, "pidRead")
                  /\ pc0' = IF SaveOk(so) THEN "started" ELSE "idle"
                  /\ runResult' = IF SaveOk(so) THEN runResult ELSE "StateWrite"
  /\ UNCHANGED <<clock, detach, containerId, runs, stage1Vars, stage2Vars, proc, optsPipe,
                 initPipe, stagePipe, stopVars>>

\* Lines 188-192: after a failed handshake, cmd.Wait() for stage 1, then
\* return the error.
RunContainer_WaitFailed ==
  /\ pc0 = "reapFailed"
  /\ pc1 = "exited"
  /\ proc' = [proc EXCEPT ![s1pid] = IF proc[s1pid] = "zombie" THEN "free" ELSE @]
  /\ pc0' = "idle"
  /\ runResult' = "Handshake"
  /\ UNCHANGED <<disk, clock, container, detach, containerId, runs, stage1Vars, stage2Vars,
                 optsPipe, initPipe, stagePipe, stopVars, trace, runWrites>>

\* Lines 201-209: detached mode releases stage 1 and returns.
RunContainer_Detach ==
  /\ pc0 = "started"
  /\ detach
  /\ pc0' = "idle"
  /\ runResult' = "ok"
  /\ UNCHANGED <<disk, clock, container, detach, containerId, runs, stage1Vars, stage2Vars, proc,
                 optsPipe, initPipe, stagePipe, stopVars, trace, runWrites>>

\* Variant: after a clean exit the record is not marked Stopped.
RunContainer_Wait_NoStopped(so) ==
  /\ pc0 = "started"
  /\ ~detach
  /\ pc1 = "exited"
  /\ proc' = [proc EXCEPT ![s1pid] = IF proc[s1pid] = "zombie" THEN "free" ELSE @]
  /\ pc0' = "idle"
  /\ so = "ok"
  /\ runResult' = IF exit1 # 0 THEN "ChildWait" ELSE "ok"
  /\ UNCHANGED <<container, disk, runWrites>>
  /\ UNCHANGED <<clock, detach, containerId, runs, stage1Vars, stage2Vars, optsPipe, initPipe,
                 stagePipe, stopVars, trace>>

\* Lines 211-221: attached mode waits for stage 1; on a clean exit it marks
\* the record Stopped and persists.  so: how SaveState ends.
RunContainer_Wait(so) ==
  /\ pc0 = "started"
  /\ ~detach
  /\ pc1 = "exited"
  /\ proc' = [proc EXCEPT ![s1pid] = IF proc[s1pid] = "zombie" THEN "free" ELSE @]
  /\ pc0' = "idle"
  /\ IF exit1 # 0
       THEN /\ so = "ok"
            /\ runResult' = "ChildWait"
            /\ UNCHANGED <<container, disk, runWrites>>
       ELSE /\ container' = [container EXCEPT !.Status = Stopped]
            /\ disk' = SaveState(disk, container', so)
            /\ runWrites' = IF Written(so) THEN Append(runWrites, container')
                             ELSE runWrites
            /\ runResult' = IF SaveOk(so) THEN "ok" ELSE "StateWrite"
  /\ UNCHANGED <<clock, detach, containerId, runs, stage1Vars, stage2Vars, optsPipe, initPipe,
                 stagePipe, stopVars, trace>>

(***************************************************************************)
(* Stage 1: handleParentStage.                                             *)
(***************************************************************************)
\* Lines 301-311: wrap INIT_PIPE and decode the stage options.
ParentStage_Decode ==
  /\ pc1 = "decode"
  /\ optsPipe # <<>>
  /\ s1opts' = Head(optsPipe)
  /\ optsPipe' = Tail(optsPipe)
  /\ pc1' = "writeAlive"
  /\ trace' = Append(trace, "optsDecoded")
  /\ UNCHANGED <<disk, stage0Vars, s1pid, exit1, stage2Vars, proc, initPipe,
                 stagePipe, stopVars, runWrites>>

\* Lines 313-317: the zero "parent-stage alive" byte on the init pipe.
ParentStage_WriteAlive ==
  /\ pc1 = "writeAlive"
  /\ initPipe' = Append(initPipe, NUL)
  /\ pc1' = "spawn"
  /\ trace' = Append(trace, "aliveByte")
  /\ UNCHANGED <<disk, stage0Vars, s1pid, s1opts, exit1, stage2Vars, proc, optsPipe,
                 stagePipe, stopVars, runWrites>>

\* Variant: stage 1 reports the PID without waiting for the readiness byte.
AfterSpawn_NoWait == "writePid"

\* Where stage 1 continues once stage 2 has been started.
AfterSpawn == "readReady"

\* Lines 319-387: stage socket pair, build the command, childCmd.Start
\* with the clone flags, close the child end.  Any failing call returns an
\* error, and init() exits 1.
ParentStage_Spawn ==
  /\ pc1 = "spawn"
  /\ \/ \E p \in FreePids :
          /\ proc' = [proc EXCEPT ![p] = "alive"]
          /\ s2pid' = p
          /\ pc2' = ChildSteps[1]
          /\ pc1' = AfterSpawn
          /\ trace' = Append(trace, "s2started")
          /\ UNCHANGED <<exit1, exit2>>
     \/ /\ Exit1(1)
        /\ trace' = Append(trace, "fatal1")
        /\ UNCHANGED <<s2pid, pc2, exit2>>
  /\ UNCHANGED <<disk, stage0Vars, s1pid, s1opts, optsPipe, initPipe, stagePipe,
                 stopVars, runWrites>>

\* The byte stage 1 accepts as stage 2's readiness signal.
StageByteOk(b) == b = NUL

\* Variant: stage 1 keeps its copy of the child end, so its read never
\* sees the end of the stream.
StagePipeEOF_KeptOpen == FALSE

\* A read on the stage pipe's parent end finds the end of the stream:
\* stage 1 has closed its copy of the child end (line 385), so stage 2
\* held the only ones.
StagePipeEOF == pc2 = "exited"

\* Lines 389-396: read one byte from the stage pipe; a read error (end of
\* stream: stage 2 is gone) or a non-zero byte is fatal.
ParentStage_ReadReady ==
  /\ pc1 = "readReady"
  /\ stagePipe # <<>> \/ StagePipeEOF
  /\ IF stagePipe # <<>> /\ StageByteOk(Head(stagePipe))
       THEN /\ pc1' = "writePid"
            /\ stagePipe' = Tail(stagePipe)
            /\ trace' = Append(trace, "readyRead")
            /\ UNCHANGED <<exit1, proc>>
       ELSE /\ Exit1(1)
            /\ stagePipe' = IF stagePipe # <<>> THEN Tail(stagePipe) ELSE stagePipe
            /\ trace' = Append(trace, "fatal1")
  /\ UNCHANGED <<disk, stage0Vars, s1pid, s1opts, stage2Vars, optsPipe, initPipe,
                 stopVars, runWrites>>

\* Variant: stage 1 reports its own PID.
ReportedPid_Self == s1pid

\* childCmd.Process.Pid: the PID stage 1 puts in the "pid:<N>" line.
ReportedPid == s2pid

\* Lines 398-403: report the PID of stage 2 on the init pipe.
ParentStage_WritePid ==
  /\ pc1 = "writePid"
  /\ initPipe' = initPipe \o PidLine(ReportedPid)
  /\ pc1' = "finish"
  /\ trace' = Append(trace, "pidSent")
  /\ UNCHANGED <<disk, stage0Vars, s1pid, s1opts, exit1, stage2Vars, proc, optsPipe,
                 stagePipe, stopVars, runWrites>>

\* Variant: in detached mode stage 1 also waits for stage 2 before it exits.
ParentStage_Release_Waits ==
  /\ pc1 = "finish"
  /\ s1opts.Detach
  /\ pc2 = "exited"
  /\ Exit1(0)
  /\ UNCHANGED <<disk, stage0Vars, s1pid, s1opts, stage2Vars, optsPipe, initPipe,
                 stagePipe, stopVars, trace, runWrites>>

\* Lines 405-410 and 574: detached mode releases stage 2 and exits 0.
ParentStage_Release ==
  /\ pc1 = "finish"
  /\ s1opts.Detach
  /\ Exit1(0)
  /\ UNCHANGED <<disk, stage0Vars, s1pid, s1opts, stage2Vars, optsPipe, initPipe,
                 stagePipe, stopVars, trace, runWrites>>

\* Variant: stage 1 exits 0 whatever stage 2's status was.
WaitExitCode_Zero(code) == code - code

\* The exit code of stage 1 after childCmd.Wait() (init(), lines 570-574).
WaitExitCode(code) == IF code = 0 THEN 0 ELSE 1

\* Lines 412-417: attached mode waits for stage 2 and reaps it.
ParentStage_Wait ==
  /\ pc1 = "finish"
  /\ ~s1opts.Detach
  /\ pc2 = "exited"
  /\ pc1' = "exited"
  /\ exit1' = WaitExitCode(exit2)
  /\ proc' = [proc EXCEPT ![s1pid] = "zombie",
                          ![s2pid] = IF proc[s2pid] = "zombie" THEN "free" ELSE @]
  /\ UNCHANGED <<disk, stage0Vars, s1pid, s1opts, stage2Vars, optsPipe, initPipe,
                 stagePipe, stopVars, trace, runWrites>>

(***************************************************************************)
(* Stage 2: handleChildStage.                                              *)
(***************************************************************************)
\* Lines 442-497: one mount/pivot step; ok says whether the syscall
\* succeeds.  A failing step returns an error, and init() exits 1.
ChildStage_Step(ok) ==
  /\ pc2 \in MountSteps
  /\ IF ok
       THEN /\ pc2' = ChildSteps[StepIndex(pc2) + 1]
            /\ trace' = IF pc2' \in MountSteps THEN trace ELSE Append(trace, "mountDone")
            /\ UNCHANGED <<exit2, proc>>
       ELSE /\ Exit2(1)
            /\ trace' = Append(trace, "fatal2")
  /\ UNCHANGED <<disk, stage0Vars, stage1Vars, s2pid, optsPipe, initPipe, stagePipe,
                 stopVars, runWrites>>

\* Lines 499-504: the zero readiness byte on the stage pipe.
ChildStage_WriteReady ==
  /\ pc2 = "writeReady"
  /\ stagePipe' = Append(stagePipe, NUL)
  /\ pc2' = "exec"
  /\ trace' = Append(trace, "readyByte")
  /\ UNCHANGED <<disk, stage0Vars, stage1Vars, s2pid, exit2, proc, optsPipe, initPipe,
                 stopVars, runWrites>>

\* Lines 506-515: exec /bin/sh; a failing exec exits 1.
ChildStage_Exec(ok) ==
  /\ pc2 = "exec"
  /\ IF ok
       THEN /\ pc2' = "shell"
            /\ UNCHANGED <<exit2, proc, trace>>
       ELSE /\ Exit2(1)
            /\ trace' = Append(trace, "fatal2")
  /\ UNCHANGED <<disk, stage0Vars, stage1Vars, s2pid, optsPipe, initPipe, stagePipe,
                 stopVars, runWrites>>

\* The container payload (/bin/sh) ends on its own with some exit code.
Shell_Exit(code) ==
  /\ pc2 = "shell"
  /\ Exit2(code)
  /\ UNCHANGED <<disk, stage0Vars, stage1Vars, s2pid, optsPipe, initPipe, stagePipe,
                 stopVars, trace, runWrites>>

(***************************************************************************)
(* The host: PID 1 reaps orphans; processes left by earlier runs end.      *)
(***************************************************************************)
Host_Reap(p) ==
  /\ proc[p] = "zombie"
  /\ Orphaned(p)
  /\ proc' = [proc EXCEPT ![p] = "free"]
  /\ UNCHANGED <<disk, stage0Vars, stage1Vars, stage2Vars, optsPipe, initPipe,
                 stagePipe, stopVars, trace, runWrites>>

\* A process of an earlier run (no longer stage 1 or 2 of this one) ends.
Host_OrphanExit(p) ==
  /\ proc[p] = "alive"
  /\ p # s1pid /\ p # s2pid
  /\ proc' = [proc EXCEPT ![p] = "zombie"]
  /\ UNCHANGED <<disk, stage0Vars, stage1Vars, stage2Vars, optsPipe, initPipe,
                 stagePipe, stopVars, trace, runWrites>>

\* The host starts a process that has nothing to do with the runtime; the
\* kernel gives it a PID that is free, which may have been a container's.
Host_Spawn(p) ==
  /\ proc[p] = "free"
  /\ proc' = [proc EXCEPT ![p] = "other"]
  /\ UNCHANGED <<disk, stage0Vars, stage1Vars, stage2Vars, optsPipe, initPipe,
                 stagePipe, stopVars, trace, runWrites>>

(***************************************************************************)
(* StopContainer.                                                          *)
(***************************************************************************)
\* Variant: only a Stopped record is refused.
StopAllowed_NotStopped(c) == c.Status # Stopped

\* Line 232: the status StopContainer requires.
StopAllowed(c) == c.Status = Running

\* kill(pid, SIGKILL) succeeds when the PID names a process (a zombie
\* counts), whichever process that is; otherwise proc.Signal returns an
\* error.
KillOk(pid) == pid \in Pids /\ proc[pid] \in {"alive", "zombie", "other"}

\* Variant: the error of proc.Signal is ignored.
StopOutcome_IgnoreSignalError(rec, killed) ==
  IF rec \in {NoRec, NoFile} THEN "NotFound"
  ELSE IF rec = Truncated THEN "StateRead"
  ELSE IF rec.Status # Running THEN "NotRunning"
  ELSE "ok"

\* Lines 228-242: what StopContainer returns before it touches the record.
StopOutcome(rec, killed) ==
  IF rec \in {NoRec, NoFile} THEN "NotFound"
  ELSE IF rec = Truncated THEN "StateRead"
  ELSE IF ~StopAllowed(rec) THEN "NotRunning"
  ELSE IF ~killed THEN "Signal"
  ELSE "ok"

\* Line 236: the PID StopContainer signals.
StopTarget(c) == c.InitProcessPiD

\* Variant: the status is not changed before the record is persisted.
StoppedRecord_Unchanged(c) == c

\* Variant: a stop also clears the PID of the record.
StoppedRecord_ClearsPid(c) == [c EXCEPT !.Status = Stopped, !.InitProcessPiD = 0]

\* Line 244: the record StopContainer persists.
StoppedRecord(c) == [c EXCEPT !.Status = Stopped]

\* Lines 226-249, the whole call.  so: how SaveState ends.
StopContainer(so) ==
  /\ stops < MaxStops
  /\ stops' = stops + 1
  /\ LET signalled == Loadable(disk) /\ StopAllowed(disk)
         target == IF signalled THEN StopTarget(disk) ELSE 0
         killed == signalled /\ KillOk(target)
         outcome == StopOutcome(disk, killed)
     IN /\ lastSignal' = IF killed THEN [pid |-> target, stop |-> stops'] ELSE lastSignal
        /\ IF killed /\ proc[target] = "alive"
             THEN /\ proc' = [proc EXCEPT ![target] = "zombie"]
                  /\ IF target = s1pid
                       THEN pc1' = "exited" /\ exit1' = -1
                       ELSE UNCHANGED <<pc1, exit1>>
                  /\ IF target = s2pid
                       THEN pc2' = "exited" /\ exit2' = -1
                       ELSE UNCHANGED <<pc2, exit2>>
             ELSE /\ proc' = IF killed /\ proc[target] = "other"
                                THEN [proc EXCEPT ![target] = "free"]
                                ELSE proc
                  /\ UNCHANGED <<pc1, exit1, pc2, exit2>>
        /\ IF outcome = "ok"
             THEN /\ disk' = SaveState(disk, StoppedRecord(disk), so)
                  /\ stopResult' = IF SaveOk(so) THEN "ok" ELSE "StateWrite"
             ELSE /\ so = "ok"
                  /\ stopResult' = outcome
                  /\ UNCHANGED disk
  /\ UNCHANGED <<stage0Vars, s1pid, s1opts, s2pid, optsPipe, initPipe, stagePipe,
                 trace, runWrites, savePc, loaded, cliVars, ioVars>>

(***************************************************************************)
(* The program.                                                            *)
(***************************************************************************)
\* What stops RunContainer before it saves the first record ("ok":
\* nothing): LoadSpec, cpAlpineFS or CreateStateDir, over all inputs.
PrepareOutcomes ==
  {PrepareOutcome(specOk, cpAlpineFS(primary, fallback, copyOk), dirOk) :
     specOk \in BOOLEAN, primary \in BOOLEAN, fallback \in BOOLEAN,
     copyOk \in BOOLEAN, dirOk \in BOOLEAN}

ExitCodes == {0, 1}

Next ==
  \/ \E d \in BOOLEAN, o \in PrepareOutcomes, so \in SaveOutcomes :
       RunContainer_Prepare(ContainerId, d, o, so)
  \/ RunContainer_Start("decode")
  \/ RunContainer_SendOpts
  \/ \E so \in SaveOutcomes : RunContainer_Handshake(so)
  \/ RunContainer_WaitFailed
  \/ RunContainer_Detach
  \/ \E so \in SaveOutcomes : RunContainer_Wait(so)
  \/ ParentStage_Decode
  \/ ParentStage_WriteAlive
  \/ ParentStage_Spawn
  \/ ParentStage_ReadReady
  \/ ParentStage_WritePid
  \/ ParentStage_Release
  \/ ParentStage_Wait
  \/ \E ok \in BOOLEAN : ChildStage_Step(ok)
  \/ ChildStage_WriteReady
  \/ \E ok \in BOOLEAN : ChildStage_Exec(ok)
  \/ \E code \in ExitCodes : Shell_Exit(code)
  \/ \E p \in Pids : Host_Reap(p)
  \/ \E p \in Pids : Host_OrphanExit(p)
  \/ \E so \in SaveOutcomes : StopContainer(so)

Spec == Init /\ [][Next]_vars

\* The steps of each process.  The host schedules every live process, so a
\* stage that can take its next step eventually takes it.
Stage0Step ==
  \/ RunContainer_Start("decode")
  \/ RunContainer_SendOpts
  \/ \E so \in SaveOutcomes : RunContainer_Handshake(so)
  \/ RunContainer_WaitFailed
  \/ RunContainer_Detach
  \/ \E so \in SaveOutcomes : RunContainer_Wait(so)

Stage1Step ==
  \/ ParentStage_Decode
  \/ ParentStage_WriteAlive
  \/ ParentStage_Spawn
  \/ ParentStage_ReadReady
  \/ ParentStage_WritePid
  \/ ParentStage_Release
  \/ ParentStage_Wait

\* The shell's own end is not forced: the payload may run forever.
Stage2Step ==
  \/ \E ok \in BOOLEAN : ChildStage_Step(ok)
  \/ ChildStage_WriteReady
  \/ \E ok \in BOOLEAN : ChildStage_Exec(ok)

Fairness == WF_vars(Stage0Step) /\ WF_vars(Stage1Step) /\ WF_vars(Stage2Step)

\* One launch of the container from the initial state, with concurrent
\* StopContainer calls, under fair scheduling of the three stages.
NextOneRun ==
  \/ \E d \in BOOLEAN, o \in PrepareOutcomes, so \in SaveOutcomes :
       runs = 0 /\ RunContainer_Prepare(ContainerId, d, o, so)
  \/ Stage0Step
  \/ Stage1Step
  \/ Stage2Step
  \/ \E code \in ExitCodes : Shell_Exit(code)
  \/ \E p \in Pids : Host_Reap(p)
  \/ \E so \in SaveOutcomes : StopContainer(so)

SpecFair == Init /\ [][NextOneRun]_vars /\ Fairness

\* One launch on a host that also starts other processes.
NextHost ==
  \/ NextOneRun
  \/ \E p \in Pids : Host_Spawn(p)

SpecHost == Init /\ [][NextHost]_vars

\* Largest exit code of the shell that is told apart.
MaxCode == 2

ShellCodes == 0..MaxCode

\* One launch whose shell may end with any exit code.
NextCodes ==
  \/ \E d \in BOOLEAN, o \in PrepareOutcomes, so \in SaveOutcomes :
       runs = 0 /\ RunContainer_Prepare(ContainerId, d, o, so)
  \/ Stage0Step
  \/ Stage1Step
  \/ Stage2Step
  \/ \E code \in ShellCodes : Shell_Exit(code)
  \/ \E p \in Pids : Host_Reap(p)

SpecCodes == Init /\ [][NextCodes]_vars

\* The ids a caller may pass.
Ids == {ContainerId, EmptyId}

\* One launch with any id, followed by StopContainer calls with the same id.
NextId ==
  \/ \E id \in Ids, d \in BOOLEAN, o \in PrepareOutcomes, so \in SaveOutcomes :
       runs = 0 /\ RunContainer_Prepare(id, d, o, so)
  \/ Stage0Step
  \/ Stage1Step
  \/ Stage2Step
  \/ \E code \in ExitCodes : Shell_Exit(code)
  \/ \E p \in Pids : Host_Reap(p)
  \/ \E so \in SaveOutcomes : StopContainer(so)

SpecId == Init /\ [][NextId]_vars

(***************************************************************************)
(* The runtime against a stub stage 1 (scenario E6): the program started   *)
(* as "init PARENT_STAGE" writes some byte stream on the init pipe and     *)
(* exits, instead of running handleParentStage.                            *)
(***************************************************************************)
\* Lines a stub may send after its first byte.
StubLines ==
  {<<>>, <<CH_x, LF>>, PidLine(MaxPid),
   PidPrefix \o <<SP>> \o Digits(MaxPid - 1) \o <<LF>>}

StubStreams == {<<>>} \cup {<<b>> \o l : b \in {NUL, 1}, l \in StubLines}

Stub_Write(s) ==
  /\ pc1 = "stub"
  /\ initPipe' = s
  /\ pc1' = "stubWritten"
  /\ UNCHANGED <<disk, stage0Vars, s1pid, s1opts, exit1, stage2Vars, proc, optsPipe,
                 stagePipe, stopVars, trace, runWrites>>

Stub_Exit(code) ==
  /\ pc1 = "stubWritten"
  /\ Exit1(code)
  /\ UNCHANGED <<disk, stage0Vars, s1pid, s1opts, stage2Vars, optsPipe, initPipe,
                 stagePipe, stopVars, trace, runWrites>>

NextStub ==
  \/ \E d \in BOOLEAN, o \in PrepareOutcomes, so \in SaveOutcomes :
       RunContainer_Prepare(ContainerId, d, o, so)
  \/ RunContainer_Start("stub")
  \/ RunContainer_SendOpts
  \/ \E so \in SaveOutcomes : RunContainer_Handshake(so)
  \/ RunContainer_WaitFailed
  \/ RunContainer_Detach
  \/ \E so \in SaveOutcomes : RunContainer_Wait(so)
  \/ \E s \in StubStreams : Stub_Write(s)
  \/ \E code \in ExitCodes : Stub_Exit(code)
  \/ \E p \in Pids : Host_Reap(p)
  \/ \E p \in Pids : Host_OrphanExit(p)
  \/ \E so \in SaveOutcomes : StopContainer(so)

SpecStub == Init /\ [][NextStub]_vars

(***************************************************************************)
(* readInitInfo on its own: stage 0 sits in the handshake read, the writer *)
(* has gone, and the init pipe holds an arbitrary byte stream.             *)
(***************************************************************************)
BodyBytes == {ZERO, ZERO + 1, ZERO + 9, SP, PLUS, MINUS, CH_x, LF}

RECURSIVE SeqsUpTo(_, _)
\* All sequences over S of length at most n.
SeqsUpTo(S, n) ==
  IF n = 0 THEN {<<>>}
  ELSE LET shorter == SeqsUpTo(S, n - 1)
       IN shorter \cup {Append(s, x) : s \in shorter, x \in S}

ParseHeads == {<<>>, <<NUL>>, <<1>>}
ParsePrefixes == {PidPrefix, <<CH_p, CH_i, CH_d>>, <<SP>> \o PidPrefix}
ParseEnds == {<<>>, <<LF>>, <<13, LF>>, <<LF, ZERO + 1, LF>>}

ParseInputs ==
  {h \o p \o b \o e : h \in ParseHeads, p \in ParsePrefixes,
                      b \in SeqsUpTo(BodyBytes, MaxBody), e \in ParseEnds}

InitParse ==
  /\ initPipe \in ParseInputs
  /\ pc0 = "handshake"
  /\ pc1 = "exited"
  /\ s1pid = MaxPid
  /\ proc = [p \in Pids |-> IF p = MaxPid THEN "zombie" ELSE "free"]
  /\ container = NewContainer(ContainerId, 1)
  /\ disk = SavedRecord(container)
  /\ runWrites = <<container>>
  /\ clock = 1
  /\ runs = MaxRuns
  /\ stops = MaxStops
  /\ detach = FALSE
  /\ CliIdle
  /\ StdinIdle
  /\ containerId = ContainerId
  /\ runResult = "none"
  /\ s1opts = NoOpts
  /\ exit1 = 0
  /\ pc2 = "none"
  /\ s2pid = 0
  /\ exit2 = 0
  /\ optsPipe = <<>>
  /\ stagePipe = <<>>
  /\ stopResult = "none"
  /\ lastSignal = NoSignal
  /\ savePc = "idle"
  /\ loaded = NoLoad
  /\ trace = <<>>

NextParse ==
  \/ RunContainer_Handshake("ok")
  \/ RunContainer_WaitFailed

SpecParse == InitParse /\ [][NextParse]_vars

(***************************************************************************)
(* SaveState and LoadState step by step: one caller rewrites the record of *)
(* a container (as RunContainer does at lines 197 and 217, StopContainer   *)
(* at line 245) while another loads it (StopContainer, line 228).          *)
(***************************************************************************)
\* The records a caller saves over c: the same container with a later
\* status, and the PID of its init process.
LaterRecords(c) ==
  {[c EXCEPT !.Status = st, !.InitProcessPiD = p] :
     st \in {x \in {Running, Stopped} : x > c.Status},
     p \in IF c.InitProcessPiD = 0 THEN Pids ELSE {c.InitProcessPiD}}

\* Lines 54-58: SaveState(stateDir, c) is called; MkdirAll.
Save_Call(c) ==
  /\ savePc = "idle"
  /\ container' = c
  /\ savePc' = "create"
  /\ UNCHANGED <<disk, clock, pc0, detach, containerId, runResult, runs, stage1Vars, stage2Vars,
                 proc, optsPipe, initPipe, stagePipe, stopResult, lastSignal, stops,
                 loaded, trace, runWrites, cliVars, ioVars>>

\* Lines 59-63: os.Create opens state.json with O_TRUNC.
Save_Create(ok) ==
  /\ savePc = "create"
  /\ IF ok THEN disk' = Truncated /\ savePc' = "encode"
           ELSE savePc' = "idle" /\ UNCHANGED disk
  /\ UNCHANGED <<stage0Vars, stage1Vars, stage2Vars, proc, optsPipe, initPipe,
                 stagePipe, stopResult, lastSignal, stops, loaded, trace, runWrites, cliVars, ioVars>>

\* Lines 65-69: the encoder writes the document.
Save_Encode(ok) ==
  /\ savePc = "encode"
  /\ IF ok THEN /\ disk' = SavedRecord(container)
                /\ runWrites' = Append(runWrites, container)
                /\ savePc' = "sync"
           ELSE /\ savePc' = "idle"
                /\ UNCHANGED <<disk, runWrites>>
  /\ UNCHANGED <<stage0Vars, stage1Vars, stage2Vars, proc, optsPipe, initPipe,
                 stagePipe, stopResult, lastSignal, stops, loaded, trace, cliVars, ioVars>>

\* Lines 71-75: Sync, return.
Save_Sync ==
  /\ savePc = "sync"
  /\ savePc' = "idle"
  /\ UNCHANGED <<disk, stage0Vars, stage1Vars, stage2Vars, proc, optsPipe, initPipe,
                 stagePipe, stopResult, lastSignal, stops, loaded, trace, runWrites, cliVars, ioVars>>

\* Lines 78-90: LoadState opens and decodes whatever the file holds now.
Load_Call ==
  /\ loaded' = disk
  /\ UNCHANGED <<disk, stage0Vars, stage1Vars, stage2Vars, proc, optsPipe, initPipe,
                 stagePipe, stopResult, lastSignal, stops, savePc, trace, runWrites, cliVars, ioVars>>

\* The container has been created: its first record is on disk.
InitSave ==
  /\ container = NewContainer(ContainerId, 1)
  /\ disk = SavedRecord(container)
  /\ runWrites = <<container>>
  /\ clock = 1
  /\ pc0 = "idle"
  /\ detach = FALSE
  /\ CliIdle
  /\ StdinIdle
  /\ containerId = ContainerId
  /\ runResult = "none"
  /\ runs = 0
  /\ pc1 = "none"
  /\ s1pid = 0
  /\ s1opts = NoOpts
  /\ exit1 = 0
  /\ pc2 = "none"
  /\ s2pid = 0
  /\ exit2 = 0
  /\ proc = [p \in Pids |-> "free"]
  /\ optsPipe = <<>>
  /\ initPipe = <<>>
  /\ stagePipe = <<>>
  /\ stopResult = "none"
  /\ lastSignal = NoSignal
  /\ stops = 0
  /\ savePc = "idle"
  /\ loaded = NoLoad
  /\ trace = <<>>

NextSave ==
  \/ \E c \in LaterRecords(Last(runWrites)) : Save_Call(c)
  \/ \E ok \in BOOLEAN : Save_Create(ok)
  \/ \E ok \in BOOLEAN : Save_Encode(ok)
  \/ Save_Sync
  \/ Load_Call

SpecSave == InitSave /\ [][NextSave]_vars

(***************************************************************************)
(* Properties.                                                             *)
(***************************************************************************)
\* Position of a protocol event in the trace of the current run, 0 if absent.
EventPos(e) ==
  IF \E i \in DOMAIN trace : trace[i] = e
    THEN CHOOSE i \in DOMAIN trace : trace[i] = e
    ELSE 0

\* The current RunContainer call has persisted a record with status Running.
RunWroteRunning == \E i \in DOMAIN runWrites : runWrites[i].Status = Running

\* The record on disk was created by the current RunContainer call.
DiskOfThisRun == Loadable(disk) /\ runWrites # <<>> /\ disk.CreatedAt = clock

\* C1: stage 0 persists status Running only after, in this order, stage 2
\* was started, stage 2 wrote its readiness byte (which it does after the
\* mount/pivot steps), stage 1 read that byte and stage 1 wrote the pid
\* line; no state of a run has a Running record while stage 2 has not been
\* started or has not signalled readiness.
C1_RunningAfterHandshake ==
  /\ (RunWroteRunning \/ (DiskOfThisRun /\ disk.Status = Running))
       => EventPos("running") > 0
  /\ EventPos("running") > 0 =>
       /\ 0 < EventPos("s2started")
       /\ EventPos("s2started") < EventPos("mountDone")
       /\ EventPos("mountDone") < EventPos("readyByte")
       /\ EventPos("readyByte") < EventPos("readyRead")
       /\ EventPos("readyRead") < EventPos("pidSent")
       /\ EventPos("pidSent") < EventPos("running")
       /\ s2pid \in Pids
       /\ pc2 \notin MountSteps \cup {"none", "writeReady"}
       /\ pc1 \in {"finish", "exited"}

C1_Witness ==
  /\ EventPos("running") > 0
  /\ DiskOfThisRun
  /\ disk.Status = Running
  /\ pc2 = "shell"

\* C2: the PID persisted with status Running is the host PID of the stage 2
\* process stage 1 started, exactly the value of the "pid:<N>" line on the
\* init pipe, and never the PID of stage 1.
C2_RecordedPidIsStage2 ==
  \A i \in DOMAIN runWrites :
    runWrites[i].Status = Running =>
      /\ runWrites[i].InitProcessPiD = s2pid
      /\ runWrites[i].InitProcessPiD # s1pid
      /\ s2pid \in Pids
      /\ initPipe = <<NUL>> \o PidLine(runWrites[i].InitProcessPiD)

C2_Witness ==
  /\ RunWroteRunning
  /\ container.InitProcessPiD = s2pid
  /\ s2pid >= 10
  /\ s1pid < 10

\* C3: in every record RunContainer persists, status Running implies a
\* non-zero PID, and the first record it writes has status Created and
\* PID 0.
C3_RunningHasPid ==
  /\ \A i \in DOMAIN runWrites :
       runWrites[i].Status = Running => runWrites[i].InitProcessPiD # 0
  /\ runWrites # <<>> =>
       /\ runWrites[1].Status = Created
       /\ runWrites[1].InitProcessPiD = 0
  /\ (DiskOfThisRun /\ disk.Status = Running) => disk.InitProcessPiD # 0

C3_Witness ==
  /\ Len(runWrites) >= 2
  /\ runWrites[1].Status = Created
  /\ runWrites[2].Status = Running
  /\ disk = runWrites[2]

\* C4: across any sequence of RunContainer and StopContainer calls on the
\* same id the status of the persisted record never moves backwards in
\* Created < Running < Stopped.
C4_StatusNeverRegresses ==
  [][(Loadable(disk) /\ Loadable(disk')) => disk'.Status >= disk.Status]_vars

\* C5: an attached run that returns success has written exactly the
\* statuses Created, Running, Stopped, and the final record has the given
\* id, status Stopped and a non-zero PID.
C5_AttachedSuccess ==
  (pc0 = "idle" /\ runResult = "ok" /\ ~detach) =>
    /\ [i \in DOMAIN runWrites |-> runWrites[i].Status] = <<Created, Running, Stopped>>
    /\ disk = Last(runWrites)
    /\ disk.Id = ContainerId
    /\ disk.Status = Stopped
    /\ disk.InitProcessPiD # 0

C5_Witness ==
  /\ pc0 = "idle"
  /\ runResult = "ok"
  /\ ~detach
  /\ Len(runWrites) = 3

\* A step that is one whole StopContainer call.
StopStep == stops' = stops + 1

C7_StopNotRunning ==
  [][(StopStep /\ Loadable(disk) /\ disk.Status # Running) =>
       /\ stopResult' = "NotRunning"
       /\ lastSignal' = lastSignal
       /\ proc' = proc
       /\ disk' = disk]_vars

C7_Witness ==
  /\ stops = 2
  /\ stopResult = "NotRunning"
  /\ lastSignal = [pid |-> s2pid, stop |-> 1]
  /\ runs = 1
  /\ detach
  /\ Loadable(disk)
  /\ disk.Status = Stopped

\* C8: StopContainer fails with NotFound when there is no record (no
\* signal, no state created) and with Signal when the kill of the recorded
\* PID fails; then nothing is persisted and the record stays Running.
C8_StopNotFoundOrSignal ==
  [][StopStep =>
       /\ disk \in {NoRec, NoFile} =>
            /\ stopResult' = "NotFound"
            /\ lastSignal' = lastSignal
            /\ proc' = proc
            /\ disk' = disk
       /\ (Loadable(disk) /\ disk.Status = Running /\ ~KillOk(disk.InitProcessPiD)) =>
            /\ stopResult' = "Signal"
            /\ lastSignal' = lastSignal
            /\ proc' = proc
            /\ disk' = disk]_vars

C8_Witness ==
  /\ stopResult = "Signal"
  /\ Loadable(disk)
  /\ disk.Status = Running
  /\ proc[disk.InitProcessPiD] = "free"
  /\ lastSignal = NoSignal

\* Stage 0 has got a result from readInitInfo in the current run.
HandshakeRead == EventPos("handshakeErr") > 0 \/ EventPos("pidRead") > 0

\* C9: if the first byte stage 0 reads from the init pipe is not 0x00,
\* RunContainer returns the handshake error and never persists Running in
\* that run: the record stays Created with PID 0.
C9_BadFirstByte ==
  (HandshakeRead /\ initPipe # <<>> /\ Head(initPipe) # NUL) =>
    /\ EventPos("pidRead") = 0
    /\ pc0 \in {"reapFailed", "idle"}
    /\ pc0 = "idle" => runResult = "Handshake"
    /\ runWrites = <<NewContainer(ContainerId, clock)>>
    /\ disk = runWrites[1]
    /\ disk.Status = Created
    /\ disk.InitProcessPiD = 0

C9_Witness ==
  /\ pc0 = "idle"
  /\ runResult = "Handshake"
  /\ Len(initPipe) > 1
  /\ Head(initPipe) = 1
  /\ disk.Status = Created

\* The protocol's byte values, written out.
ProtocolPrefix == <<112, 105, 100, 58>>
WhiteBytes == {9, 10, 11, 12, 13, 32}
DigitBytes == 48..57
SignBytes == {43, 45}

RECURSIVE Pow10(_)
Pow10(k) == IF k = 0 THEN 1 ELSE 10 * Pow10(k - 1)

RECURSIVE DecimalValue(_)
\* The number a string of decimal digits denotes, most significant first.
DecimalValue(ds) ==
  IF ds = <<>> THEN 0
  ELSE (Head(ds) - 48) * Pow10(Len(ds) - 1) + DecimalValue(Tail(ds))

\* The stream is exactly 0x00, "pid:", the digits of a number, "\n".
ExactForm(stream) ==
  /\ Len(stream) >= 7
  /\ stream[1] = 0
  /\ SubSeq(stream, 2, 5) = ProtocolPrefix
  /\ stream[Len(stream)] = 10
  /\ \A j \in 6..(Len(stream) - 1) : stream[j] \in DigitBytes
  /\ stream[6] # 48 \/ Len(stream) = 7

ExactValue(stream) == DecimalValue(SubSeq(stream, 6, Len(stream) - 1))

\* stream[a..b] is an optionally signed string of decimal digits.
IsNumber(stream, a, b) ==
  LET start == IF stream[a] \in SignBytes THEN a + 1 ELSE a
  IN start <= b /\ \A j \in start..b : stream[j] \in DigitBytes

NumberValue(stream, a, b) ==
  LET start == IF stream[a] \in SignBytes THEN a + 1 ELSE a
      magnitude == DecimalValue(SubSeq(stream, start, b))
  IN IF stream[a] = 45 THEN 0 - magnitude ELSE magnitude

\* The stream starts with 0x00 and a first line "pid:" white* number white*,
\* the number being stream[a..b]; what follows the first "\n" is free.
AcceptedShape(stream, a, b) ==
  /\ Len(stream) >= 7
  /\ stream[1] = 0
  /\ SubSeq(stream, 2, 5) = ProtocolPrefix
  /\ \E nl \in 7..Len(stream) :
       /\ stream[nl] = 10
       /\ \A j \in 2..(nl - 1) : stream[j] # 10
       /\ 6 <= a /\ a <= b /\ b < nl
       /\ \A j \in 6..(a - 1) : stream[j] \in WhiteBytes
       /\ \A j \in (b + 1)..nl : stream[j] \in WhiteBytes
       /\ IsNumber(stream, a, b)

\* Stage 0 has left readInitInfo with an error.
ParseFailed == pc0 = "reapFailed" \/ (pc0 = "idle" /\ runResult = "Handshake")

\* C10 as stated: readInitInfo returns N exactly when the stream is one
\* 0x00 byte followed by "pid:", the decimal digits of N and "\n", and
\* fails on every other stream.
C10_ExactProtocol ==
  /\ pc0 = "started" =>
       (ExactForm(initPipe) /\ container.InitProcessPiD = ExactValue(initPipe))
  /\ ParseFailed => ~ExactForm(initPipe)

\* C10, amended: readInitInfo returns N exactly when the stream starts with
\* 0x00 and its first line is "pid:" followed, between optional white
\* space, by an optionally signed decimal number of value N; bytes after
\* the first "\n" are ignored; every other complete stream fails.
C10_ParserAccepts ==
  /\ pc0 = "started" =>
       \E a, b \in 1..Len(initPipe) :
         /\ AcceptedShape(initPipe, a, b)
         /\ container.InitProcessPiD = NumberValue(initPipe, a, b)
         /\ container.Status = Running
  /\ ParseFailed =>
       /\ ~\E a, b \in 1..Len(initPipe) : AcceptedShape(initPipe, a, b)
       /\ container.Status = Created
       /\ container.InitProcessPiD = 0

C10_Witness ==
  /\ pc0 = "started"
  /\ ~ExactForm(initPipe)
  /\ container.InitProcessPiD = 19

\* A detached RunContainer call returns success in this step.
DetachedReturn == pc0 = "started" /\ detach /\ pc0' = "idle" /\ runResult' = "ok"

\* C11 as stated: at the moment a detached RunContainer returns success
\* stage 1 has already exited, so the parent of the process with the
\* recorded PID is PID 1.
C11_DetachedReturnParentIsInit ==
  [][DetachedReturn => (pc1' = "exited" /\ Stage2Parent' = InitPid)]_vars

\* Some step of the current run has failed: RunContainer returned an error
\* or stage 1 exited non-zero.
RunFailed == runResult \notin {"none", "ok"} \/ (pc1 = "exited" /\ exit1 # 0)

\* Both stage 0 and stage 1 of a detached run are done, cleanly.
DetachedDone ==
  /\ pc0 = "idle" /\ runResult = "ok" /\ detach
  /\ pc1 = "exited" /\ exit1 = 0
  /\ Len(runWrites) = 2 /\ Last(runWrites).Status = Running

\* Stage 1 of a detached run exits in this step.
DetachedStage1Exit == pc1 = "finish" /\ s1opts.Detach /\ pc1' = "exited"

\* C12: a detached run in which no step fails eventually has RunContainer
\* returned success, its last persisted record at status Running, and
\* stage 1 exited with code 0; stage 0 returns as soon as the handshake is
\* done and stage 1 exits as soon as it has reported the PID, neither being
\* held up by stage 2, and neither exit touches stage 2.
C12_DetachedCompletes ==
  /\ (pc0 = "start" /\ detach) ~> (RunFailed \/ DetachedDone)
  /\ []((pc0 = "started" /\ detach) => ENABLED RunContainer_Detach)
  /\ []((pc1 = "finish" /\ s1opts.Detach) => ENABLED ParentStage_Release)
  /\ [][DetachedReturn => (Last(runWrites').Status = Running /\ Len(runWrites') = 2)]_vars
  /\ [][(DetachedReturn \/ DetachedStage1Exit) =>
          (pc2' = pc2 /\ exit2' = exit2 /\ proc'[s2pid] = proc[s2pid])]_vars

C12_Witness ==
  /\ DetachedDone
  /\ Loadable(disk)
  /\ disk.Status = Running
  /\ pc2 = "shell"
  /\ proc[s2pid] = "alive"
  /\ proc[s1pid] = "free"

\* kill(pid, 0) succeeds for the PID in the record on disk.
RecordedPidExists == KillOk(disk.InitProcessPiD)

\* The record is a Running record written by the current launch and no
\* StopContainer call has signalled its PID.
RunningNotStopped ==
  /\ DiskOfThisRun
  /\ disk.Status = Running
  /\ lastSignal.pid # disk.InitProcessPiD

RunErrorReturn == pc0 # "idle" /\ pc0' = "idle" /\ runResult' # "ok"

\* C14 as stated: whenever RunContainer returns an error after the first
\* record was written, the file holds the last record the call saved:
\* Created with PID 0 after a Spawn, SendOpts or Handshake failure, Running
\* with the reported PID after a ChildWait failure.
C14_ErrorKeepsLastSaved ==
  [][RunErrorReturn =>
       /\ disk' = Last(runWrites)
       /\ runResult' \in {"Spawn", "SendOpts", "Handshake"} =>
            (disk'.Status = Created /\ disk'.InitProcessPiD = 0)
       /\ runResult' = "ChildWait" =>
            (disk'.Status = Running /\ disk'.InitProcessPiD = container.InitProcessPiD)]_vars

\* C14, what does hold: on a Spawn, SendOpts, Handshake or ChildWait error
\* RunContainer writes nothing on its way out.  After the first three the
\* file holds the Created record with PID 0.  After ChildWait the last
\* record the call saved is Running with the reported PID, and the file
\* holds it unless a StopContainer call has meanwhile rewritten it as
\* Stopped or truncated it in a failed save.  When the error is a failed
\* SaveState of the call itself, the file is as before, truncated, or
\* already holds the new record.
C14_ErrorLeavesRecord ==
  [][RunErrorReturn =>
       /\ runResult' \in {"Spawn", "SendOpts", "Handshake", "ChildWait"} => disk' = disk
       /\ runResult' \in {"Spawn", "SendOpts", "Handshake"} =>
            /\ disk' = Last(runWrites)
            /\ Len(runWrites) = 1
            /\ disk'.Status = Created
            /\ disk'.InitProcessPiD = 0
       /\ runResult' = "ChildWait" =>
            /\ Len(runWrites) = 2
            /\ Last(runWrites).Status = Running
            /\ Last(runWrites).InitProcessPiD = container.InitProcessPiD
            /\ disk' \in {Last(runWrites), StoppedRecord(Last(runWrites)), Truncated}
       /\ runResult' = "StateWrite" =>
            disk' \in {disk, Truncated, SavedRecord(container')}
       /\ runResult' \in {"Spawn", "SendOpts", "Handshake", "ChildWait", "StateWrite"}]_vars

C14_Witness ==
  /\ pc0 = "idle"
  /\ runResult = "ChildWait"
  /\ Loadable(disk)
  /\ disk = Last(runWrites)
  /\ disk.Status = Running
  /\ disk.InitProcessPiD = s2pid

\* RunContainer has returned from a launch that got as far as starting
\* stage 1, and not because one of its own saves failed.
RunReturned == pc0 = "idle" /\ EventPos("s1started") > 0 /\ runResult # "StateWrite"

\* A fatal error has occurred in stage 1, in stage 2.
Fatal1 == EventPos("fatal1") > 0
Fatal2 == EventPos("fatal2") > 0

\* The error occurred after stage 2 had written its readiness byte.
AfterReadiness == EventPos("readyByte") > 0

\* C15 as stated: a fatal error in stage 1 or 2 makes the process exit
\* non-zero and RunContainer, attached or detached, returns Handshake when
\* the error came before the readiness byte and ChildWait when it came
\* after.
C15_FatalErrorSurfaces ==
  /\ Fatal1 => (pc1 = "exited" /\ exit1 # 0)
  /\ Fatal2 => (pc2 = "exited" /\ exit2 # 0)
  /\ (RunReturned /\ (Fatal1 \/ Fatal2)) =>
       runResult = IF AfterReadiness THEN "ChildWait" ELSE "Handshake"

\* C15, amended: a fatal error in stage 1 or 2 makes the process exit with
\* code 1.  RunContainer returns Handshake when the error came before the
\* readiness byte; when stage 2 fails after it, an attached RunContainer
\* returns ChildWait, and a detached one returns success.
C15_FatalErrorResult ==
  /\ Fatal1 => (pc1 = "exited" /\ exit1 = 1 /\ ~AfterReadiness)
  /\ Fatal2 => (pc2 = "exited" /\ exit2 = 1)
  /\ (RunReturned /\ (Fatal1 \/ Fatal2) /\ ~AfterReadiness) => runResult = "Handshake"
  /\ (RunReturned /\ Fatal2 /\ AfterReadiness /\ ~detach) => runResult = "ChildWait"
  /\ (RunReturned /\ Fatal2 /\ AfterReadiness /\ detach) => runResult = "ok"

C15_Witness ==
  /\ RunReturned
  /\ ~detach
  /\ Fatal2
  /\ AfterReadiness
  /\ runResult = "ChildWait"
  /\ exit1 = 1

\* C16 as stated: a LoadState concurrent with a SaveState of the same
\* container finds a complete document, the previous one or the next one,
\* never an empty or partly written file.
C16_ReaderSeesWholeDocument ==
  loaded # NoLoad =>
    /\ Loadable(loaded)
    /\ \E i \in DOMAIN runWrites : loaded = runWrites[i]

\* A step that is the start of a RunContainer call.
RunStep == runs' = runs + 1

\* C17: with the source rootfs at neither the primary nor the fallback
\* path RunContainer fails with RootfsMissing, and with an unreadable spec
\* with SpecLoad; a call that fails so has touched no state (no state
\* directory, no record, an existing record left as it was) and has
\* spawned no stage 1.
C17_NoStateBeforeRootfs ==
  /\ [][RunStep =>
          /\ \A copyOk \in BOOLEAN, dirOk \in BOOLEAN :
               PrepareOutcome(TRUE, cpAlpineFS(FALSE, FALSE, copyOk), dirOk) = "RootfsMissing"
          /\ \A primary \in BOOLEAN, fallback \in BOOLEAN, copyOk \in BOOLEAN,
                dirOk \in BOOLEAN :
               PrepareOutcome(FALSE, cpAlpineFS(primary, fallback, copyOk), dirOk) = "SpecLoad"
          /\ runResult' \in {"RootfsMissing", "SpecLoad"} =>
               /\ disk' = disk
               /\ proc' = proc
               /\ pc0' = "idle"
               /\ pc1' = "none" /\ s1pid' = 0
               /\ runWrites' = <<>>]_vars
  /\ []((pc0 = "idle" /\ runResult \in {"RootfsMissing", "SpecLoad"}) =>
         (pc1 = "none" /\ s1pid = 0 /\ trace = <<>> /\ runWrites = <<>>))

C17_Witness ==
  /\ runs = 1
  /\ pc0 = "idle"
  /\ runResult = "RootfsMissing"
  /\ disk = NoRec
  /\ proc = [p \in Pids |-> "free"]

\* C18: a RunContainer call with the empty id fails with BadInput; it
\* writes no record (no state.json directly under the runtime root) and
\* spawns no stage 1.
C18_EmptyIdIsBadInput ==
  (runs > 0 /\ containerId = EmptyId) =>
    /\ pc0 = "idle"
    /\ runResult = "BadInput"
    /\ disk = NoRec
    /\ runWrites = <<>>
    /\ pc1 = "none" /\ s1pid = 0

\* What the code does with the empty id: the record goes to state.json
\* directly under the runtime root and stage 1 is started.
C18_EmptyIdRuns ==
  /\ runs > 0 /\ containerId = EmptyId
  /\ StateDir(containerId) = <<BaseStateDir>>
  /\ Loadable(disk) /\ disk.Id = EmptyId
  /\ pc1 # "none" /\ s1pid # 0

(***************************************************************************)
(* The JSON document: what the encoder in SaveState writes for a Container *)
(* and what the decoder in LoadState makes of it.  Strings are byte        *)
(* sequences, a time is a year, the seconds into that year and the         *)
(* nanoseconds into that second.  The document is the record of its        *)
(* members' texts; indentation and member order are not modelled.          *)
(***************************************************************************)
QUOTE == 34
AMP == 38
DOT == 46
LT == 60
GT == 62
CH_Z == 90
BSLASH == 92
CH_a == 97
CH_u == 117
RuneError == 65533

IsCont(b) == b >= 128 /\ b <= 191

\* utf8.DecodeRune for sequences of up to three bytes: the first rune of s
\* and its width; RuneError with width 1 for a byte that starts no valid
\* sequence.
DecodeRune(s) ==
  LET b == s[1]
  IN IF b < 128 THEN [rune |-> b, size |-> 1]
     ELSE IF b >= 194 /\ b <= 223 /\ Len(s) >= 2 /\ IsCont(s[2])
       THEN [rune |-> (b - 192) * 64 + (s[2] - 128), size |-> 2]
     ELSE IF /\ b >= 224 /\ b <= 239 /\ Len(s) >= 3 /\ IsCont(s[2]) /\ IsCont(s[3])
             /\ (b - 224) * 4096 + (s[2] - 128) * 64 + (s[3] - 128) >= 2048
             /\ (b - 224) * 4096 + (s[2] - 128) * 64 + (s[3] - 128) \notin 55296..57343
       THEN [rune |-> (b - 224) * 4096 + (s[2] - 128) * 64 + (s[3] - 128), size |-> 3]
     ELSE [rune |-> RuneError, size |-> 1]

\* utf8.AppendRune for runes below 0x10000.
EncodeRune(r) ==
  IF r < 128 THEN <<r>>
  ELSE IF r < 2048 THEN <<192 + (r \div 64), 128 + (r % 64)>>
  ELSE <<224 + (r \div 4096), 128 + ((r \div 64) % 64), 128 + (r % 64)>>

RECURSIVE ValidUTF8(_)
\* utf8.ValidString
ValidUTF8(s) ==
  IF s = <<>> THEN TRUE
  ELSE LET d == DecodeRune(s)
       IN /\ ~(d.rune = RuneError /\ d.size = 1)
          /\ ValidUTF8(SubSeq(s, d.size + 1, Len(s)))

HexDigit(v) == IF v < 10 THEN ZERO + v ELSE CH_a + (v - 10)

HexValue(b) ==
  IF IsDigit(b) THEN b - ZERO
  ELSE IF b >= CH_a /\ b <= CH_a + 5 THEN b - CH_a + 10
  ELSE b - 65 + 10

\* \uXXXX
Escape4(r) ==
  <<BSLASH, CH_u, HexDigit(r \div 4096), HexDigit((r \div 256) % 16),
    HexDigit((r \div 16) % 16), HexDigit(r % 16)>>

\* Bytes the encoder escapes: control characters, the quote, the
\* backslash and, with HTML escaping on (the Encoder's default), < > &.
NeedsEscape(b) == b < 32 \/ b \in {QUOTE, BSLASH, LT, GT, AMP}

RECURSIVE QuoteBody(_)
\* encoding/json appendString, without the surrounding quotes: a byte
\* that is not valid UTF-8 is written as the escape of U+FFFD.
QuoteBody(s) ==
  IF s = <<>> THEN <<>>
  ELSE LET d == DecodeRune(s)
           rest == QuoteBody(SubSeq(s, d.size + 1, Len(s)))
       IN IF d.size = 1 /\ d.rune # RuneError
            THEN IF ~NeedsEscape(s[1]) THEN <<s[1]>> \o rest
                 ELSE IF s[1] \in {QUOTE, BSLASH} THEN <<BSLASH, s[1]>> \o rest
                 ELSE IF s[1] = LF THEN <<BSLASH, 110>> \o rest
                 ELSE IF s[1] = 13 THEN <<BSLASH, 114>> \o rest
                 ELSE IF s[1] = 9 THEN <<BSLASH, 116>> \o rest
                 ELSE Escape4(s[1]) \o rest
          ELSE IF d.size = 1 THEN Escape4(RuneError) \o rest
          ELSE IF d.rune \in {8232, 8233} THEN Escape4(d.rune) \o rest
          ELSE SubSeq(s, 1, d.size) \o rest

Quote(s) == <<QUOTE>> \o QuoteBody(s) \o <<QUOTE>>

RECURSIVE UnquoteBody(_)
\* encoding/json unquoteBytes on the text between the quotes.
UnquoteBody(t) ==
  IF t = <<>> THEN <<>>
  ELSE IF t[1] = BSLASH
    THEN IF t[2] = CH_u
           THEN EncodeRune(HexValue(t[3]) * 4096 + HexValue(t[4]) * 256
                           + HexValue(t[5]) * 16 + HexValue(t[6]))
                \o UnquoteBody(SubSeq(t, 7, Len(t)))
         ELSE IF t[2] = 110 THEN <<LF>> \o UnquoteBody(SubSeq(t, 3, Len(t)))
         ELSE IF t[2] = 114 THEN <<13>> \o UnquoteBody(SubSeq(t, 3, Len(t)))
         ELSE IF t[2] = 116 THEN <<9>> \o UnquoteBody(SubSeq(t, 3, Len(t)))
         ELSE <<t[2]>> \o UnquoteBody(SubSeq(t, 3, Len(t)))
  ELSE LET d == DecodeRune(t)
       IN (IF d.size = 1 /\ d.rune = RuneError THEN EncodeRune(RuneError)
           ELSE SubSeq(t, 1, d.size))
          \o UnquoteBody(SubSeq(t, d.size + 1, Len(t)))

Unquote(t) == UnquoteBody(SubSeq(t, 2, Len(t) - 1))

\* strconv.AppendInt in base 10.
FormatInt(n) == IF n < 0 THEN <<MINUS>> \o Digits(0 - n) ELSE Digits(n)

\* The decimal digits of n, zero-padded on the left to width w.
Pad(w, n) == [i \in 1..(w - Len(Digits(n))) |-> ZERO] \o Digits(n)

RECURSIVE TrimZeros(_)
TrimZeros(s) ==
  IF s # <<>> /\ s[Len(s)] = ZERO THEN TrimZeros(SubSeq(s, 1, Len(s) - 1)) ELSE s

\* The year range Time.MarshalJSON accepts (RFC 3339).
JSONYears == 0..9999

\* Time.MarshalJSON in the layout of RFC3339Nano: the fraction of the
\* second is written without its trailing zeros, and not at all when zero.
FormatTime(t) ==
  Pad(4, t.year) \o <<MINUS>> \o Digits(t.sec)
    \o (IF t.nsec = 0 THEN <<>> ELSE <<DOT>> \o TrimZeros(Pad(9, t.nsec)))
    \o <<CH_Z>>

\* Index of the first "." of s, 0 when there is none.
FirstDot(s) ==
  IF \E i \in 1..Len(s) : s[i] = DOT
    THEN CHOOSE i \in 1..Len(s) : s[i] = DOT /\ \A j \in 1..(i - 1) : s[j] # DOT
    ELSE 0

\* Time.UnmarshalJSON on a text FormatTime has written.
ParseTime(s) ==
  LET body == SubSeq(s, 6, Len(s) - 1)
      dot == FirstDot(body)
      frac == SubSeq(body, dot + 1, Len(body))
  IN [year |-> DigitsValue(SubSeq(s, 1, 4)),
      sec |-> DigitsValue(IF dot = 0 THEN body ELSE SubSeq(body, 1, dot - 1)),
      nsec |-> IF dot = 0 THEN 0 ELSE DigitsValue(frac) * Pow10(9 - Len(frac))]

\* json.Marshal of a Container (the struct tags of lines 30-36).
Marshal(c) ==
  IF c.CreatedAt.year \notin JSONYears THEN [ok |-> FALSE]
  ELSE [ok |-> TRUE,
        doc |-> [id |-> Quote(c.Id),
                 initProcessPiD |-> FormatInt(c.InitProcessPiD),
                 createdAt |-> Quote(FormatTime(c.CreatedAt)),
                 status |-> FormatInt(c.Status),
                 bundle |-> Quote(c.Bundle)]]

\* json.Unmarshal of a document into a Container.
Unmarshal(doc) ==
  [Id |-> Unquote(doc.id),
   InitProcessPiD |-> Atoi(doc.initProcessPiD).val,
   CreatedAt |-> ParseTime(Unquote(doc.createdAt)),
   Status |-> Atoi(doc.status).val,
   Bundle |-> Unquote(doc.bundle)]

IsDoc(file) == "id" \in DOMAIN file

\* LoadState returned an error.
LoadError == [loaderr |-> TRUE]

\* Lines 78-90: open state.json and decode it.
LoadState(file) == IF IsDoc(file) THEN Unmarshal(file) ELSE LoadError

(***************************************************************************)
(* SaveState and LoadState on their own: any Container value, and a state  *)
(* directory of which any number of trailing path elements is missing.     *)
(***************************************************************************)
\* Longest id and bundle.
MaxStr == 2

\* Most path elements of the state directory that may be missing.
MaxMissing == 2

\* x, ", the two bytes of e-acute (valid together, invalid alone), 0xff.
StrBytes == {CH_x, QUOTE, 195, 169, 255}

Times == [year : {2026, 10000}, sec : {7}, nsec : {0, 5, 500000000}]

Containers ==
  [Id : SeqsUpTo(StrBytes, MaxStr),
   InitProcessPiD : {0, 42},
   CreatedAt : Times,
   Status : {Created, Running, Stopped},
   Bundle : {<<>>, <<BSLASH>>}]

Dirs == {Missing(k) : k \in 1..MaxMissing} \cup {NoFile, Truncated}

\* Lines 54-76: SaveState(stateDir, container).  env is what the file
\* system does; the encoder fails by itself when the value has no JSON form.
RT_Save(env) ==
  /\ savePc = "idle"
  /\ LET m == Marshal(container)
         o == IF env \in {"mkdirFailed", "createFailed"} THEN env
              ELSE IF ~m.ok THEN "encodeFailed"
              ELSE env
     IN /\ disk' = IF Written(o) THEN m.doc ELSE SaveState(disk, container, o)
        /\ savePc' = IF SaveOk(o) THEN "saved" ELSE "saveFailed"
  /\ UNCHANGED <<stage0Vars, stage1Vars, stage2Vars, proc, optsPipe, initPipe,
                 stagePipe, stopResult, lastSignal, stops, loaded, trace, runWrites, cliVars, ioVars>>

\* Lines 78-90: LoadState(stateDir).
RT_Load ==
  /\ loaded = NoLoad
  /\ loaded' = LoadState(disk)
  /\ UNCHANGED <<disk, stage0Vars, stage1Vars, stage2Vars, proc, optsPipe, initPipe,
                 stagePipe, stopResult, lastSignal, stops, savePc, trace, runWrites, cliVars, ioVars>>

InitRT ==
  /\ container \in Containers
  /\ disk \in Dirs
  /\ runWrites = <<>>
  /\ clock = 0
  /\ pc0 = "idle"
  /\ detach = FALSE
  /\ CliIdle
  /\ StdinIdle
  /\ containerId = ContainerId
  /\ runResult = "none"
  /\ runs = 0
  /\ pc1 = "none"
  /\ s1pid = 0
  /\ s1opts = NoOpts
  /\ exit1 = 0
  /\ pc2 = "none"
  /\ s2pid = 0
  /\ exit2 = 0
  /\ proc = [p \in Pids |-> "free"]
  /\ optsPipe = <<>>
  /\ initPipe = <<>>
  /\ stagePipe = <<>>
  /\ stopResult = "none"
  /\ lastSignal = NoSignal
  /\ stops = 0
  /\ savePc = "idle"
  /\ loaded = NoLoad
  /\ trace = <<>>

NextRT ==
  \/ \E env \in AllSaveOutcomes : RT_Save(env)
  \/ RT_Load

SpecRT == InitRT /\ [][NextRT]_vars

\* The loaded record equals c, createdAt compared at second precision.
SameRecord(l, c) ==
  /\ l # LoadError
  /\ l.Id = c.Id
  /\ l.InitProcessPiD = c.InitProcessPiD
  /\ l.Status = c.Status
  /\ l.Bundle = c.Bundle
  /\ l.CreatedAt.year = c.CreatedAt.year
  /\ l.CreatedAt.sec = c.CreatedAt.sec

\* C19: for every Container value and every state directory, existing or
\* not, SaveState (the file system permitting) creates the missing
\* directories and state.json, and LoadState then returns a record equal
\* to the saved one in id, initProcessPid, status, bundle and, at second
\* precision, createdAt.
C19_SaveLoadRoundTrip ==
  /\ [][RT_Save("ok") => (savePc' = "saved" /\ IsDoc(disk'))]_vars
  /\ [][(savePc = "saved" /\ RT_Load) => SameRecord(loaded', container)]_vars

\* A Container whose strings are valid UTF-8 and whose createdAt has a
\* year RFC 3339 can express.
Representable(c) ==
  /\ ValidUTF8(c.Id)
  /\ ValidUTF8(c.Bundle)
  /\ c.CreatedAt.year \in JSONYears

\* C19, what does hold: the round trip is exact, nanoseconds included,
\* for the representable Container values.
C19_RoundTripRepresentable ==
  /\ [][(RT_Save("ok") /\ Representable(container)) =>
          (savePc' = "saved" /\ IsDoc(disk'))]_vars
  /\ [][(savePc = "saved" /\ RT_Load /\ Representable(container)) =>
          (SameRecord(loaded', container) /\ loaded' = container)]_vars

\* A representable value with an escaped byte, a two-byte rune and a
\* fraction of a second has gone through a save and a load.
C19_Witness ==
  /\ savePc = "saved"
  /\ container.Id = <<195, 169>>
  /\ container.Bundle = <<BSLASH>>
  /\ container.CreatedAt.nsec = 500000000
  /\ loaded = container

\* An id that is not valid UTF-8 comes back as U+FFFD.
C19_IdReplaced ==
  /\ savePc = "saved"
  /\ container.Id = <<255>>
  /\ loaded # NoLoad /\ loaded # LoadError
  /\ loaded.Id = <<239, 191, 189>>

(***************************************************************************)
(* The start of the program: the package's init() runs before main(), and  *)
(* both look at os.Args.  argv[i + 1] is os.Args[i].                       *)
(***************************************************************************)
ParentStage == "PARENT_STAGE"
ChildStage == "CHILD_STAGE"

\* Most arguments after the program name.
MaxArgs == 3

Program == "containish"

Words == {"init", ParentStage, ChildStage, "run", "parent_stage"}

ArgVectors == {<<Program>> \o a : a \in SeqsUpTo(Words, MaxArgs)}

\* os.Args[i]
Arg(i) == argv[i + 1]

\* Lines 565-583: init() enters a stage handler for "init PARENT_STAGE"
\* and "init CHILD_STAGE" and returns for everything else.
init_Dispatch ==
  /\ mainPc = "init"
  /\ IF Len(argv) > 2 /\ Arg(1) = "init" /\ Arg(2) = ParentStage
       THEN mainPc' = "parentStage" /\ calls' = Append(calls, "handleParentStage")
     ELSE IF Len(argv) > 2 /\ Arg(1) = "init" /\ Arg(2) = ChildStage
       THEN mainPc' = "childStage" /\ calls' = Append(calls, "handleChildStage")
     ELSE mainPc' = "main" /\ UNCHANGED calls
  /\ UNCHANGED <<disk, stage0Vars, stage1Vars, stage2Vars, proc, optsPipe, initPipe,
                 stagePipe, stopResult, lastSignal, stops, savePc, loaded, trace,
                 runWrites, ioVars, argv, exitCode>>

\* Lines 568-573 and 575-580: the handler has returned; os.Exit(1) on an
\* error, os.Exit(0) otherwise.  handleChildStage returns only with an error.
init_Exit(failed) ==
  /\ mainPc \in {"parentStage", "childStage"}
  /\ mainPc = "childStage" => failed
  /\ mainPc' = "exited"
  /\ exitCode' = IF failed THEN 1 ELSE 0
  /\ UNCHANGED <<disk, stage0Vars, stage1Vars, stage2Vars, proc, optsPipe, initPipe,
                 stagePipe, stopResult, lastSignal, stops, savePc, loaded, trace,
                 runWrites, ioVars, argv, calls>>

\* Line 512: handleChildStage execs /bin/sh; the program is gone.
init_Exec ==
  /\ mainPc = "childStage"
  /\ mainPc' = "execed"
  /\ UNCHANGED <<disk, stage0Vars, stage1Vars, stage2Vars, proc, optsPipe, initPipe,
                 stagePipe, stopResult, lastSignal, stops, savePc, loaded, trace,
                 runWrites, ioVars, argv, calls, exitCode>>

\* Variant: main() hands every argument vector to the command layer.
main_NoGuard ==
  /\ mainPc = "main"
  /\ IF Len(argv) < 2
       THEN mainPc' = "panicked" /\ exitCode' = 2 /\ UNCHANGED calls
     ELSE mainPc' = "cli" /\ calls' = Append(calls, "Execute") /\ UNCHANGED exitCode
  /\ UNCHANGED <<disk, stage0Vars, stage1Vars, stage2Vars, proc, optsPipe, initPipe,
                 stagePipe, stopResult, lastSignal, stops, savePc, loaded, trace,
                 runWrites, ioVars, argv>>

\* main.go lines 10-15: exit on "init", otherwise cmd.Execute().  Reading
\* os.Args[1] of a one-element vector panics (exit status 2).
main ==
  /\ mainPc = "main"
  /\ IF Len(argv) < 2
       THEN mainPc' = "panicked" /\ exitCode' = 2 /\ UNCHANGED calls
     ELSE IF Arg(1) = "init"
       THEN mainPc' = "exited" /\ exitCode' = 0 /\ UNCHANGED calls
     ELSE mainPc' = "cli" /\ calls' = Append(calls, "Execute") /\ UNCHANGED exitCode
  /\ UNCHANGED <<disk, stage0Vars, stage1Vars, stage2Vars, proc, optsPipe, initPipe,
                 stagePipe, stopResult, lastSignal, stops, savePc, loaded, trace,
                 runWrites, ioVars, argv>>

\* cmd.Execute returns (or exits 1 on an error) and main ends.
Execute_Return(failed) ==
  /\ mainPc = "cli"
  /\ mainPc' = "exited"
  /\ exitCode' = IF failed THEN 1 ELSE 0
  /\ UNCHANGED <<disk, stage0Vars, stage1Vars, stage2Vars, proc, optsPipe, initPipe,
                 stagePipe, stopResult, lastSignal, stops, savePc, loaded, trace,
                 runWrites, ioVars, argv, calls>>

InitCli ==
  /\ argv \in ArgVectors
  /\ mainPc = "init"
  /\ calls = <<>>
  /\ exitCode = 0
  /\ StdinIdle
  /\ disk = NoRec
  /\ clock = 0
  /\ pc0 = "idle"
  /\ container = NoContainer
  /\ detach = FALSE
  /\ containerId = ContainerId
  /\ runResult = "none"
  /\ pc1 = "none"
  /\ s1pid = 0
  /\ s1opts = NoOpts
  /\ exit1 = 0
  /\ pc2 = "none"
  /\ s2pid = 0
  /\ exit2 = 0
  /\ proc = [p \in Pids |-> "free"]
  /\ optsPipe = <<>>
  /\ initPipe = <<>>
  /\ stagePipe = <<>>
  /\ stopResult = "none"
  /\ lastSignal = NoSignal
  /\ trace = <<>>
  /\ runWrites = <<>>
  /\ runs = 0
  /\ stops = 0
  /\ savePc = "idle"
  /\ loaded = NoLoad

NextCli ==
  \/ init_Dispatch
  \/ \E failed \in BOOLEAN : init_Exit(failed)
  \/ init_Exec
  \/ main
  \/ \E failed \in BOOLEAN : Execute_Return(failed)

SpecCli == InitCli /\ [][NextCli]_vars

\* os.Args[1] is "init".
IsInitArgv == Len(argv) > 1 /\ Arg(1) = "init"

\* The stage named by os.Args[2], "" when there is none.
StageArg == IF Len(argv) > 2 THEN Arg(2) ELSE ""

\* C20: a program started with os.Args[1] = "init" never enters
\* cmd.Execute: with PARENT_STAGE as os.Args[2] it runs handleParentStage
\* and exits, with CHILD_STAGE it runs handleChildStage (which execs the
\* shell or fails), and with any other or no os.Args[2] it enters no
\* handler and exits with status 0.
C20_InitNeverReachesCli ==
  (IsInitArgv /\ mainPc # "init") =>
    /\ mainPc # "cli"
    /\ \A i \in 1..Len(calls) : calls[i] # "Execute"
    /\ StageArg = ParentStage =>
         (calls = <<"handleParentStage">> /\ mainPc \in {"parentStage", "exited"})
    /\ StageArg = ChildStage =>
         (calls = <<"handleChildStage">> /\ mainPc \in {"childStage", "execed", "exited"})
    /\ StageArg \notin {ParentStage, ChildStage} =>
         /\ calls = <<>>
         /\ mainPc \in {"main", "exited"}
         /\ mainPc = "exited" => exitCode = 0

\* "init" followed by an unknown stage name has passed init() and main().
C20_Witness ==
  /\ IsInitArgv
  /\ StageArg = "run"
  /\ mainPc = "exited"
  /\ calls = <<>>


\* C21: stage 1 decodes the stage options before it writes the zero byte
\* on the init pipe, writes that byte before it starts stage 2, and writes
\* the pid line only after it has read one byte from the stage pipe and
\* that byte is 0; when the read fails or the byte is not 0, stage 1 exits
\* non-zero and writes no pid line.
C21_Stage1Order ==
  /\ \A b \in 0..255 : StageByteOk(b) <=> b = NUL
  /\ []((EventPos("aliveByte") > 0) =>
          (0 < EventPos("optsDecoded") /\ EventPos("optsDecoded") < EventPos("aliveByte")))
  /\ []((EventPos("s2started") > 0) =>
          (0 < EventPos("aliveByte") /\ EventPos("aliveByte") < EventPos("s2started")))
  /\ []((EventPos("pidSent") > 0) =>
          /\ EventPos("s2started") < EventPos("readyRead")
          /\ EventPos("readyRead") < EventPos("pidSent"))
  /\ []((EventPos("fatal1") > 0 /\ EventPos("s2started") > 0) =>
          /\ pc1 = "exited" /\ exit1 # 0
          /\ EventPos("readyRead") = 0 /\ EventPos("pidSent") = 0)
  /\ [][(pc1' = "writePid" /\ pc1 # "writePid") =>
          (pc1 = "readReady" /\ stagePipe # <<>> /\ Head(stagePipe) = NUL
             /\ stagePipe' = Tail(stagePipe))]_vars
  /\ [][(Len(initPipe') > Len(initPipe) + 1) =>
          (pc1 = "writePid" /\ initPipe' = initPipe \o PidLine(s2pid))]_vars
  /\ [][(pc1 = "readReady" /\ pc1' = "exited") =>
          (exit1' = 1 /\ initPipe' = initPipe
             /\ (stagePipe = <<>> \/ Head(stagePipe) # NUL))]_vars

\* Stage 1 has gone through all its protocol steps and sent the pid line.
C21_Witness ==
  /\ pc1 = "finish"
  /\ EventPos("pidSent") > 0
  /\ EventPos("readyRead") > 0


\* The order of stage 2's steps as the specification gives it.
StatedOrder ==
  <<"mountPrivate", "bindRootfs", "openOldRoot", "openNewRoot", "fchdirNewRoot",
    "pivotRoot", "fchdirOldRoot", "chdirRoot", "mountSlave", "umountOldRoot",
    "mountProc", "writeReady", "exec">>

StatedPos(step) == CHOOSE i \in 1..Len(StatedOrder) : StatedOrder[i] = step

\* C22: stage 2 takes its steps in the stated order and stops at the
\* first one that fails, exiting non-zero; so the readiness byte is
\* written only when every mount/pivot step has succeeded, and exec is
\* attempted only after the readiness byte has been written.
C22_Stage2Order ==
  /\ [][(pc2' # pc2 /\ pc2' \notin {"none", "exited"}) =>
          \/ pc2 = "none" /\ pc2' = StatedOrder[1]
          \/ pc2 = "exec" /\ pc2' = "shell"
          \/ /\ pc2 \in {StatedOrder[i] : i \in 1..(Len(StatedOrder) - 1)}
             /\ pc2' = StatedOrder[StatedPos(pc2) + 1]]_vars
  /\ [][(pc2 \in {StatedOrder[i] : i \in 1..Len(StatedOrder)} /\ pc2' = "exited"
           /\ EventPos("fatal2")' > 0) => exit2' = 1]_vars
  /\ [][(stagePipe' # stagePipe /\ Len(stagePipe') > Len(stagePipe)) =>
          (pc2 = "writeReady" /\ pc2' = "exec" /\ stagePipe' = Append(stagePipe, NUL))]_vars
  /\ []((EventPos("readyByte") > 0) =>
          (0 < EventPos("mountDone") /\ EventPos("mountDone") < EventPos("readyByte")
             /\ EventPos("fatal2") \in {0} \cup (EventPos("readyByte") + 1)..Len(trace)))
  /\ []((pc2 \in {"exec", "shell"}) => EventPos("readyByte") > 0)
  /\ []((pc2 = "writeReady") => (EventPos("mountDone") > 0 /\ EventPos("readyByte") = 0))

\* Stage 2 has gone through every step and become the shell.
C22_Witness ==
  /\ pc2 = "shell"
  /\ EventPos("mountDone") > 0
  /\ EventPos("readyByte") > EventPos("mountDone")


\* Stage 2 has gone without writing the readiness byte while stage 1
\* waits for it.
Stage1ReadOrphaned == pc1 = "readReady" /\ pc2 = "exited" /\ EventPos("readyByte") = 0

\* Stage 1 has gone without sending the pid line while stage 0 waits for
\* the handshake.
Stage0ReadOrphaned == pc0 = "handshake" /\ pc1 = "exited" /\ EventPos("pidSent") = 0

\* C23: no read waits forever for a peer that has died.  When stage 2
\* ends before it has written the readiness byte, stage 1's read on the
\* stage pipe returns and stage 1 exits non-zero; when stage 1 ends before
\* the handshake is complete, stage 0's handshake read returns an error
\* and RunContainer returns it.
C23_NoReadOnDeadPeer ==
  /\ Stage1ReadOrphaned ~> (pc1 = "exited" /\ exit1 # 0)
  /\ Stage0ReadOrphaned ~> (pc0 = "idle" /\ runResult = "Handshake")
  /\ [](Stage1ReadOrphaned => ENABLED ParentStage_ReadReady)
  /\ [](Stage0ReadOrphaned => ENABLED RunContainer_Handshake("ok"))
  /\ [][(Stage1ReadOrphaned /\ pc1' # pc1) => (pc1' = "exited" /\ exit1' = 1)]_vars
  /\ [][(Stage0ReadOrphaned /\ pc0' # pc0) => pc0' = "reapFailed"]_vars

\* Stage 2 failed in a mount step, stage 1 saw the end of the stream and
\* exited 1, and stage 0 returned the handshake error.
C23_Witness ==
  /\ EventPos("fatal2") > 0
  /\ EventPos("readyByte") = 0
  /\ EventPos("fatal1") > EventPos("fatal2")
  /\ pc1 = "exited" /\ exit1 = 1
  /\ pc0 = "idle" /\ runResult = "Handshake"


(***************************************************************************)
(* The detached stage 1's stdin copier (lines 345-361): a goroutine that   *)
(* copies stage 1's stdin into the pipe that is stage 2's stdin.  It lives *)
(* inside the stage 1 process and ends with it.                            *)
(***************************************************************************)
\* Longest input piped into the runtime.
MaxInput == 2

InputBytes == {CH_x, LF}

Inputs == SeqsUpTo(InputBytes, MaxInput)

\* The goroutine has been started (line 357, before childCmd.Start) and the
\* process it belongs to has not exited.
CopierRunning == s1opts.Detach /\ pc1 \in {"readReady", "writePid", "finish"}

\* Lines 357-360: io.Copy(pw, os.Stdin) moves the next bytes; here one.
Copier_Forward ==
  /\ CopierRunning
  /\ stdinSrc # <<>>
  /\ stdinPipe' = Append(stdinPipe, Head(stdinSrc))
  /\ stdinSrc' = Tail(stdinSrc)
  /\ UNCHANGED <<disk, stage0Vars, stage1Vars, stage2Vars, proc, optsPipe, initPipe,
                 stagePipe, stopResult, lastSignal, stops, savePc, loaded, trace,
                 runWrites, cliVars>>

InitCopy ==
  /\ stdinSrc \in Inputs
  /\ stdinPipe = <<>>
  /\ CliIdle
  /\ disk = NoRec
  /\ clock = 0
  /\ pc0 = "idle"
  /\ container = NoContainer
  /\ detach = FALSE
  /\ containerId = ContainerId
  /\ runResult = "none"
  /\ pc1 = "none"
  /\ s1pid = 0
  /\ s1opts = NoOpts
  /\ exit1 = 0
  /\ pc2 = "none"
  /\ s2pid = 0
  /\ exit2 = 0
  /\ proc = [p \in Pids |-> "free"]
  /\ optsPipe = <<>>
  /\ initPipe = <<>>
  /\ stagePipe = <<>>
  /\ stopResult = "none"
  /\ lastSignal = NoSignal
  /\ trace = <<>>
  /\ runWrites = <<>>
  /\ runs = 0
  /\ stops = 0
  /\ savePc = "idle"
  /\ loaded = NoLoad

\* One launch with something piped into it.
NextCopy ==
  \/ \E d \in BOOLEAN, o \in PrepareOutcomes, so \in SaveOutcomes :
       runs = 0 /\ RunContainer_Prepare(ContainerId, d, o, so)
  \/ Stage0Step
  \/ Stage1Step
  \/ Stage2Step
  \/ \E code \in ExitCodes : Shell_Exit(code)
  \/ \E p \in Pids : Host_Reap(p)
  \/ Copier_Forward

SpecCopy == InitCopy /\ [][NextCopy]_vars

\* C24: the detached stage 1 does not exit, ending the copier and closing
\* the pipe into stage 2's stdin, while bytes of its stdin are still to be
\* forwarded.
C24_CopierForwardsAll ==
  (s1opts.Detach /\ pc1 = "exited" /\ exit1 = 0) => stdinSrc = <<>>

\* What the code does: stage 1 has released stage 2 and exited 0, the
\* shell runs, and bytes that were piped in never reached its stdin.
C24_InputLost ==
  /\ s1opts.Detach /\ pc1 = "exited" /\ exit1 = 0
  /\ pc2 = "shell"
  /\ stdinSrc # <<>>


\* A StopContainer call that sends the signal.
StopSignals == StopStep /\ lastSignal' # lastSignal

\* C25: the SIGKILL of StopContainer goes only to the container's init
\* process (stage 2 or the shell it became), never to a process that has
\* since been given the recorded PID.
C25_StopSignalsOnlyInit ==
  [][StopSignals =>
       (lastSignal'.pid = s2pid /\ proc[lastSignal'.pid] \in {"alive", "zombie"})]_vars

\* What the code does: the record still says Running with the PID of a
\* container that has ended, and StopContainer has killed the unrelated
\* process that now had that PID.
C25_KilledOther ==
  /\ pc2 = "exited" /\ exit2 # -1
  /\ stopResult = "ok"
  /\ lastSignal.pid = s2pid
  /\ proc[s2pid] = "free"


\* RunContainer returns an error in this step, stage 1 having been started.
RunErrorAfterStart ==
  /\ pc0 # "idle" /\ pc0' = "idle"
  /\ runResult' \notin {"none", "ok"}
  /\ EventPos("s1started") > 0

\* Stage 1 has ended and stage 0 has collected it.
Stage1Reaped == pc1 = "exited" /\ proc[s1pid] = "free"

\* C26: whenever RunContainer returns an error after it has started
\* stage 1, it has waited for stage 1 first: stage 1 has ended and is
\* reaped.
C26_ErrorReturnReapsStage1 ==
  [][RunErrorAfterStart => Stage1Reaped']_vars

\* C26, what does hold: the same for every error but the failure to
\* persist a record.
C26_ErrorReturnReapsUnlessSave ==
  [][(RunErrorAfterStart /\ runResult' # "StateWrite") => Stage1Reaped']_vars

\* What the code does: the Running record could not be persisted and
\* RunContainer has returned with stage 1 and the container still running.
C26_LeftRunning ==
  /\ pc0 = "idle" /\ runResult = "StateWrite"
  /\ pc1 = "finish" /\ proc[s1pid] = "alive"
  /\ pc2 = "shell" /\ proc[s2pid] = "alive"


\* The attached stage 1 has waited for stage 2 and exited.
AttachedWaitDone ==
  /\ ~s1opts.Detach
  /\ pc1 = "exited"
  /\ EventPos("pidSent") > 0

\* C27: the attached stage 1 waits for stage 2 to exit and then exits
\* with stage 2's exit status, whatever that status is.
C27_ExitStatusPropagated ==
  AttachedWaitDone => (pc2 = "exited" /\ exit1 = exit2)

\* What the code does: the shell ended with a status other than 0 and 1
\* and stage 1 has exited with 1.
C27_StatusCollapsed ==
  /\ AttachedWaitDone
  /\ exit2 = 2
  /\ exit1 = 1

\* C28: a StopContainer call that succeeds changes nothing in the
\* persisted record but the status: id, initProcessPid, createdAt and
\* bundle are what they were.
C28_StopChangesOnlyStatus ==
  [][(StopStep /\ stopResult' = "ok") =>
       /\ Loadable(disk) /\ Loadable(disk')
       /\ disk'.Id = disk.Id
       /\ disk'.InitProcessPiD = disk.InitProcessPiD
       /\ disk'.CreatedAt = disk.CreatedAt
       /\ disk'.Bundle = disk.Bundle
       /\ disk.Status = Running /\ disk'.Status = Stopped]_vars

\* A stop has succeeded on a record that carries a PID and a creation time.
C28_Witness ==
  /\ stopResult = "ok"
  /\ Loadable(disk)
  /\ disk.Status = Stopped
  /\ disk.InitProcessPiD \in Pids
  /\ disk.CreatedAt > 0
  /\ disk.Id = ContainerId

====
